---- MODULE Spec2Model ----
(***************************************************************************)
(* Model of the download orchestration engine of ytm_takeout_downloader.py *)
(* (warreth/YMDE): main, process_playlist, the worker pool, download_track  *)
(* and the text helpers they use.  Strings are TLA+ strings; the regular    *)
(* expressions of the source are written out as operators on them.          *)
(***************************************************************************)
EXTENDS Integers, Sequences, FiniteSets, TLC

(***************************************************************************)
(* Bounds of the model.                                                    *)
(***************************************************************************)
MaxPlaylists == 2
MaxTracks == 3
MaxTasks == 2

None == "<none>"

(***************************************************************************)
(* Text helpers: Python str methods and the regular expressions used.      *)
(***************************************************************************)
UpperChars == "ABCDEFGHIJKLMNOPQRSTUVWXYZ"
LowerChars == "abcdefghijklmnopqrstuvwxyz"
DigitChars == "0123456789"

CharAt(s, i) == SubSeq(s, i, i)

InChars(c, chars) == \E i \in 1..Len(chars) : CharAt(chars, i) = c

PosIn(c, chars) == CHOOSE i \in 1..Len(chars) : CharAt(chars, i) = c

\* str.lower() / str.upper() on one character
LowerChar(c) == IF InChars(c, UpperChars) THEN CharAt(LowerChars, PosIn(c, UpperChars)) ELSE c
UpperChar(c) == IF InChars(c, LowerChars) THEN CharAt(UpperChars, PosIn(c, LowerChars)) ELSE c

RECURSIVE Lower(_)
Lower(s) ==
    IF Len(s) <= 1 THEN LowerChar(s)
    ELSE Lower(SubSeq(s, 1, Len(s) \div 2)) \o Lower(SubSeq(s, Len(s) \div 2 + 1, Len(s)))

RECURSIVE Upper(_)
Upper(s) ==
    IF Len(s) <= 1 THEN UpperChar(s)
    ELSE Upper(SubSeq(s, 1, Len(s) \div 2)) \o Upper(SubSeq(s, Len(s) \div 2 + 1, Len(s)))

\* positions at which pat occurs in s
Occurrences(s, pat) ==
    {i \in 1..(Len(s) - Len(pat) + 1) : SubSeq(s, i, i + Len(pat) - 1) = pat}

\* Python's "pat in s"
Contains(s, pat) == Occurrences(s, pat) # {}

Min(S) == CHOOSE x \in S : \A y \in S : x <= y
Max(S) == CHOOSE x \in S : \A y \in S : x >= y

IsSpace(c) == c \in {" ", "\n", "\t", "\r"}

\* str.strip()
RECURSIVE LStrip(_)
LStrip(s) == IF s # "" /\ IsSpace(CharAt(s, 1)) THEN LStrip(SubSeq(s, 2, Len(s))) ELSE s

RECURSIVE RStrip(_)
RStrip(s) == IF s # "" /\ IsSpace(CharAt(s, Len(s))) THEN RStrip(SubSeq(s, 1, Len(s) - 1)) ELSE s

Strip(s) == RStrip(LStrip(s))

\* str.split(sep) for a one-character separator: a sequence of strings
RECURSIVE SplitOn(_, _)
SplitOn(s, sep) ==
    IF ~Contains(s, sep) THEN <<s>>
    ELSE LET i == Min(Occurrences(s, sep))
         IN  <<SubSeq(s, 1, i - 1)>> \o SplitOn(SubSeq(s, i + 1, Len(s)), sep)

\* str.split(): split on runs of whitespace, no empty strings
RECURSIVE SplitWords(_)
SplitWords(s) ==
    LET t == LStrip(s)
    IN  IF t = "" THEN <<>>
        ELSE LET ends == {i \in 1..Len(t) : IsSpace(CharAt(t, i))}
                 e == IF ends = {} THEN Len(t) + 1 ELSE Min(ends)
             IN  <<SubSeq(t, 1, e - 1)>> \o SplitWords(SubSeq(t, e, Len(t)))

\* dict.get(k) and d[k] = v
MapGet(m, k) == IF k \in DOMAIN m THEN m[k] ELSE None

MapPut(m, k, v) == [x \in DOMAIN m \union {k} |-> IF x = k THEN v ELSE m[x]]

\* the function f with every value computed, as a table
Tabulate(f) == f @@ <<>>

AllCharsIn(s, chars) == \A i \in 1..Len(s) : InChars(CharAt(s, i), chars)

(***************************************************************************)
(* get_video_id: re.search(r"(?:youtube\.com|youtu\.be).*?([A-Za-z0-9_-]   *)
(* {11})", url): the first 11 identifier characters after the leftmost      *)
(* domain occurrence that has such a run behind it on the same line.        *)
(***************************************************************************)
IdChars == UpperChars \o LowerChars \o DigitChars \o "_-"

IdLen == 11

DomainEnds(url) ==
    {i + Len(d) : i \in Occurrences(url, "youtube.com"), d \in {"youtube.com"}}
        \union {i + Len(d) : i \in Occurrences(url, "youtu.be"), d \in {"youtu.be"}}

IdStartsAfter(url, e) ==
    {j \in e..(Len(url) - IdLen + 1) :
        /\ AllCharsIn(SubSeq(url, j, j + IdLen - 1), IdChars)
        /\ ~Contains(SubSeq(url, e, j - 1), "\n")}

get_video_id(url) ==
    IF url = None THEN None
    ELSE LET ok == {e \in DomainEnds(url) : IdStartsAfter(url, e) # {}}
         IN  IF ok = {} THEN None
             ELSE LET j == Min(IdStartsAfter(url, Min(ok)))
                  IN  SubSeq(url, j, j + IdLen - 1)

(***************************************************************************)
(* classify_failure                                                        *)
(***************************************************************************)
FAIL_AGE_RESTRICTED == "age_restricted"
FAIL_PREMIUM_ONLY == "premium_only"
FAIL_REGION == "region_blocked"
FAIL_UNAVAILABLE == "unavailable"
FAIL_OTHER == "other"

\* classify_failure, but looking for the unavailable phrase before the region phrases
classify_failureUnavailableFirst(stderr) ==
    LET s == Lower(stderr)
    IN  IF Contains(s, "sign in to confirm your age") THEN FAIL_AGE_RESTRICTED
        ELSE IF Contains(s, "music premium") \/ Contains(s, "premium members") THEN FAIL_PREMIUM_ONLY
        ELSE IF Contains(s, "video unavailable") THEN FAIL_UNAVAILABLE
        ELSE IF Contains(s, "not made this video available in your country")
                \/ Contains(s, "uploader has not made") THEN FAIL_REGION
        ELSE FAIL_OTHER

classify_failure(stderr) ==
    LET s == Lower(stderr)
    IN  IF Contains(s, "sign in to confirm your age") THEN FAIL_AGE_RESTRICTED
        ELSE IF Contains(s, "music premium") \/ Contains(s, "premium members") THEN FAIL_PREMIUM_ONLY
        ELSE IF Contains(s, "not made this video available in your country")
                \/ Contains(s, "uploader has not made") THEN FAIL_REGION
        ELSE IF Contains(s, "video unavailable") THEN FAIL_UNAVAILABLE
        ELSE FAIL_OTHER

(***************************************************************************)
(* The region ladder's hints, download_track lines 295-320.                *)
(***************************************************************************)
\* re.search(r"available in (.+?)(?:\.|$)", stderr, re.IGNORECASE): group 1, or None
AvailableInEnds(s, start) ==
    {e \in start..Len(s) :
        /\ ~Contains(SubSeq(s, start, e), "\n")
        /\ \/ e = Len(s)
           \/ CharAt(s, e + 1) = "."
           \/ (e + 1 = Len(s) /\ CharAt(s, e + 1) = "\n")}

AvailableInList(stderr) ==
    LET marker == "available in "
        starts == {p + Len(marker) : p \in Occurrences(Lower(stderr), marker)}
        ok == {st \in starts : AvailableInEnds(stderr, st) # {}}
    IN  IF ok = {} THEN None
        ELSE LET st == Min(ok)
             IN  SubSeq(stderr, st, Min(AvailableInEnds(stderr, st)))

\* [c.strip() for c in raw_list.split(",") if c.strip()]
RECURSIVE StripNonEmpty(_)
StripNonEmpty(parts) ==
    IF parts = <<>> THEN <<>>
    ELSE LET c == Strip(Head(parts))
         IN  (IF c = "" THEN <<>> ELSE <<c>>) \o StripNonEmpty(Tail(parts))

\* lines 308-316: the candidate code of one country name
CountryCode(country) ==
    LET parts == SplitWords(country)
    IN  IF Len(parts) = 1 /\ Len(parts[1]) <= 3 THEN Upper(parts[1])
        ELSE IF Len(parts) = 1 THEN Upper(SubSeq(parts[1], 1, 2))
        ELSE Upper(CharAt(parts[1], 1) \o CharAt(parts[2], 1))

\* re.fullmatch(r"[A-Z]{2,3}", code)
ValidCode(code) == Len(code) \in {2, 3} /\ AllCharsIn(code, UpperChars)

MaxHints == 5

\* HintLoop, but counting a name that gives no valid code as tried
RECURSIVE HintLoopCountsSkipped(_, _)
HintLoopCountsSkipped(countries, tried) ==
    IF countries = <<>> \/ tried >= MaxHints THEN <<>>
    ELSE LET code == CountryCode(Head(countries))
         IN  IF ~ValidCode(code) THEN HintLoopCountsSkipped(Tail(countries), tried + 1)
             ELSE <<code>> \o HintLoopCountsSkipped(Tail(countries), tried + 1)

\* the loop of lines 303-320 without its invocations: the hints tried, in order
RECURSIVE HintLoop(_, _)
HintLoop(countries, tried) ==
    IF countries = <<>> \/ tried >= MaxHints THEN <<>>
    ELSE LET code == CountryCode(Head(countries))
         IN  IF ~ValidCode(code) THEN HintLoop(Tail(countries), tried)
             ELSE <<code>> \o HintLoop(Tail(countries), tried + 1)

RegionHints(stderr) ==
    LET raw == AvailableInList(stderr)
    IN  IF raw = None THEN <<>>
        ELSE HintLoop(StripNonEmpty(SplitOn(raw, ",")), 0)

(***************************************************************************)
(* Title helpers of the replacement search.                                *)
(***************************************************************************)
\* Stand-ins for alphabetic characters outside a-z (str.isalpha() holds, basic
\* Latin does not): TLA+ strings are ASCII.
NonLatinLetters == "%&"

AlphaChars == UpperChars \o LowerChars \o NonLatinLetters

\* the c of the title with "a" <= c.lower() <= "z"
LatinChars == UpperChars \o LowerChars

CountChars(s, chars) == Cardinality({i \in 1..Len(s) : InChars(CharAt(s, i), chars)})

\* is_latin_dominant: len(latin) / len(letters) >= 0.7
is_latin_dominant(title) ==
    LET letters == CountChars(title, AlphaChars)
        latin == CountChars(title, LatinChars)
    IN  letters # 0 /\ 10 * latin >= 7 * letters

StartsWith(s, pre) == Len(s) >= Len(pre) /\ SubSeq(s, 1, Len(pre)) = pre

title_looks_noise(original_latin, candidate) ==
    IF ~original_latin THEN FALSE
    ELSE IF StartsWith(Lower(candidate), "unknown title") THEN TRUE
    ELSE ~is_latin_dominant(candidate)

\* re.sub(r"\s*[\[(].*?[\])]", "", title): the leftmost bracketed segment with
\* the whitespace before it is cut, then the rest of the string likewise
IsOpen(c) == c \in {"[", "("}
IsClose(c) == c \in {"]", ")"}

ClosersOf(s, o) ==
    {c \in (o + 1)..Len(s) : IsClose(CharAt(s, c)) /\ ~Contains(SubSeq(s, o + 1, c - 1), "\n")}

RECURSIVE SpaceRunBefore(_, _)
SpaceRunBefore(s, o) ==
    IF o > 1 /\ IsSpace(CharAt(s, o - 1)) THEN 1 + SpaceRunBefore(s, o - 1) ELSE 0

RECURSIVE StripBrackets(_)
StripBrackets(s) ==
    LET opens == {o \in 1..Len(s) : IsOpen(CharAt(s, o)) /\ ClosersOf(s, o) # {}}
    IN  IF opens = {} THEN s
        ELSE LET o == Min(opens)
                 c == Min(ClosersOf(s, o))
             IN  SubSeq(s, 1, o - 1 - SpaceRunBefore(s, o)) \o StripBrackets(SubSeq(s, c + 1, Len(s)))

\* re.sub(r"\s+", " ", cleaned).strip()
RECURSIVE JoinWords(_)
JoinWords(ws) ==
    IF ws = <<>> THEN ""
    ELSE IF Len(ws) = 1 THEN ws[1]
    ELSE ws[1] \o " " \o JoinWords(Tail(ws))

normalize_title_for_search(title) == JoinWords(SplitWords(StripBrackets(title)))

\* tokenize: the maximal runs of [a-z0-9] of s.lower(), as a set
TokenChars == LowerChars \o DigitChars

TokenSet(s) ==
    LET l == Lower(s)
        isTok(i) == i >= 1 /\ i <= Len(l) /\ InChars(CharAt(l, i), TokenChars)
        starts == {k \in 1..Len(l) : isTok(k) /\ ~isTok(k - 1)}
        ends == {k \in 1..Len(l) : isTok(k) /\ ~isTok(k + 1)}
    IN  {SubSeq(l, i, Min({j \in ends : j >= i})) : i \in starts}

\* score_title_similarity as the fraction <<inter, union>>; 0.0 is <<0, 1>>
score_title_similarity(a, b) ==
    LET ta == TokenSet(a)
        tb == TokenSet(b)
    IN  IF ta = {} \/ tb = {} THEN <<0, 1>>
        ELSE <<Cardinality(ta \cap tb), Cardinality(ta \cup tb)>>

FracLess(x, y) == x[1] * y[2] < y[1] * x[2]

MIN_FALLBACK_DURATION == 40
\* DURATION_TOLERANCE = 0.25, in percent
DURATION_TOLERANCE_PCT == 25

\* Python's None where an int is expected (a duration)
NoDuration == -1

\* duration_within, but with the ends of the interval left out
duration_withinOpen(expected, candidate) ==
    IF candidate = NoDuration THEN FALSE
    ELSE IF candidate < MIN_FALLBACK_DURATION THEN FALSE
    ELSE IF expected = NoDuration THEN TRUE
    ELSE /\ expected * (100 - DURATION_TOLERANCE_PCT) < candidate * 100
         /\ candidate * 100 < expected * (100 + DURATION_TOLERANCE_PCT)

duration_within(expected, candidate) ==
    IF candidate = NoDuration THEN FALSE
    ELSE IF candidate < MIN_FALLBACK_DURATION THEN FALSE
    ELSE IF expected = NoDuration THEN TRUE
    ELSE /\ expected * (100 - DURATION_TOLERANCE_PCT) <= candidate * 100
         /\ candidate * 100 <= expected * (100 + DURATION_TOLERANCE_PCT)


(***************************************************************************)
(* The strings of the model: identifiers, URLs, titles and the diagnostic   *)
(* texts of the tool.  The text functions above are computed once over      *)
(* them; the tables below hold their values.                                *)
(***************************************************************************)
VidA == "aaaaaaaaaaa"
VidB == "bbbbbbbbbbb"
VidR == "rrrrrrrrrrr"

Ids == {VidA, VidB, VidR}

\* line 621
CanonicalUrl(vid) == "https://www.youtube.com/watch?v=" \o vid

MusicUrl(vid) == "https://music.youtube.com/watch?v=" \o vid

\* a URL that get_video_id finds no identifier in
UrlOffSite == "https://example.com/song-a"

UrlMenu == {CanonicalUrl(v) : v \in Ids} \union {MusicUrl(v) : v \in Ids} \union {UrlOffSite}

TitleA == "Song A"
TitleB == "Song B (Live)"
TitleR == "Song A (Audio)"

\* titles of search results: track B's title without and with its bracketed
\* word, a title in another script, a placeholder title
TitleBPlain == "Song B"
TitleBLive == "Song B Live"
TitleNonLatin == "%&%& &%"
TitleUnknown == "Unknown Title 7"

\* a title that is one parenthetical segment: its normalized form is empty
TitleBracketed == "(Live)"

TitleMenu ==
    {TitleA, TitleB, TitleR, "No source", TitleBPlain, TitleBLive, TitleNonLatin, TitleUnknown,
     TitleBracketed}
        \union Ids

DiagOther == "ERROR: unable to download video data: HTTP Error 403"
DiagRegion == "uploader has not made this video available in your country (DE, FR)"
DiagUnavailable == "ERROR: [youtube] Video unavailable"

DiagAge == "ERROR: [youtube] Sign in to confirm your age"
DiagPremium == "ERROR: [youtube] only available to Music Premium members"

\* region-blocked diagnostics that list countries: eight names of every
\* shape, two names with the same first letters, a name of one letter
RegionBlocked == "ERROR: The uploader has not made this video available in your country\n"

DiagRegionList ==
    RegionBlocked \o "This video is available in Germany, United States, uk, X, Canada, Poland, Spain, Italy."
DiagRegionTwice == RegionBlocked \o "This video is available in Germany, Georgia."
DiagRegionLetter == RegionBlocked \o "This video is available in X."

RegionDiags == {DiagRegion, DiagRegionList, DiagRegionTwice, DiagRegionLetter}

\* diagnostics that hold the phrases of several categories, in either case
DiagUnavailableRegion ==
    "ERROR: Video unavailable. The uploader has not made this video available in your country"
DiagAllPhrases ==
    "ERROR: VIDEO UNAVAILABLE. Uploader has not made this one public. Music Premium only. SIGN IN TO CONFIRM YOUR AGE"
DiagPremiumRegion == "ERROR: Premium members only, not made this video available in your country"

MixedDiags == {DiagUnavailableRegion, DiagAllPhrases, DiagPremiumRegion}

DiagMenu == {DiagOther, DiagUnavailable, DiagAge, DiagPremium} \union RegionDiags \union MixedDiags

\* line 289 (and 337, 391): the error message built from a non-empty stderr
StderrMessage(err) == "[yt-dlp stderr] " \o err

\* the values of the text functions over the strings of the model; a run
\* holds them in the variable text from its first state on
TextTables ==
    [ vid |-> Tabulate([u \in UrlMenu |-> get_video_id(u)]),
      class |-> Tabulate([d \in DiagMenu |-> classify_failure(StderrMessage(d))]),
      hints |-> Tabulate([d \in DiagMenu |-> RegionHints(d)]),
      norm |-> Tabulate([t \in TitleMenu |-> normalize_title_for_search(t)]),
      latin |-> Tabulate([t \in TitleMenu |-> is_latin_dominant(t)]),
      noise |-> Tabulate([l \in BOOLEAN |-> Tabulate([t \in TitleMenu |-> title_looks_noise(l, t)])]),
      sim |-> Tabulate([t \in TitleMenu |-> Tabulate([c \in TitleMenu |-> score_title_similarity(t, c)])]) ]

VARIABLE text

VidOf(url) == IF url = None THEN None ELSE text.vid[url]

(***************************************************************************)
(* The external tool (yt-dlp) at its boundary.  One result of a download   *)
(* invocation is named by a kind: OK (exit 0 and the path line), OK_NOPATH *)
(* (exit 0, nothing printed), or the diagnostic text of a failed run.      *)
(***************************************************************************)
OK == "<ok>"
OK_NOPATH == "<ok, no path>"

maybe_rewrite_to_ytmusic(url, prefer_music) ==
    IF ~prefer_music THEN url
    ELSE LET vid == VidOf(url)
         IN  IF vid # None THEN "https://music.youtube.com/watch?v=" \o vid ELSE url

\* the file the tool writes for outtmpl = out_root/playlist_name/"%(title)s [%(id)s].%(ext)s",
\* relative to out_root
ToolPath(folder, u) == folder \o "/Track [" \o VidOf(u) \o "].m4a"

\* run_cmd of a download command: (returncode, stdout, stderr)
RunDownload(kind, folder, u) ==
    IF kind = OK THEN [rc |-> 0, out |-> ToolPath(folder, u), err |-> ""]
    ELSE IF kind = OK_NOPATH THEN [rc |-> 0, out |-> "", err |-> ""]
    ELSE [rc |-> 1, out |-> "", err |-> kind]

\* one recorded invocation of the tool
Call(kind, url, xff, dry, res) == [kind |-> kind, url |-> url, xff |-> xff, dry |-> dry, res |-> res]

(***************************************************************************)
(* search_for_replacement.  A search result is [rc, cands]; a candidate is *)
(* [id, title, duration, formats], formats being the acodec values.        *)
(***************************************************************************)
extract_best_audio_codec(formats) ==
    LET usable == {i \in 1..Len(formats) : formats[i] # "" /\ formats[i] # "none"}
    IN  IF usable = {} THEN None ELSE formats[Min(usable)]

\* lines 495-503: the query, "" when no search is issued
SearchQuery(original_title, failed_url) ==
    LET failed_vid == VidOf(failed_url)
    IN  IF original_title \in {None, ""} /\ failed_vid = None THEN ""
        ELSE text.norm[IF original_title \notin {None, ""} THEN original_title ELSE failed_vid]

\* ParsedCandidates, but keeping a result that is the failed video
ParsedCandidatesKeepFailed(cands, failed_vid) ==
    SelectSeq(cands, LAMBDA c : c.id # "" /\ c.title # "")

\* lines 517-530
ParsedCandidates(cands, failed_vid) ==
    SelectSeq(cands, LAMBDA c : c.id # "" /\ c.title # "" /\ c.id # failed_vid)

\* lines 535-550
PassesFilters(c, original_latin, expected_duration) ==
    /\ ~text.noise[original_latin][c.title]
    /\ duration_within(expected_duration, c.duration)
    /\ extract_best_audio_codec(c.formats) # None

\* lines 556-560: the first candidate of greatest similarity (a stable sort, descending)
BestCandidate(filtered, original_title) ==
    IF original_title \in {None, ""} THEN filtered[1]
    ELSE LET sim(i) == text.sim[original_title][filtered[i].title]
             best == {i \in 1..Len(filtered) : \A j \in 1..Len(filtered) : ~FracLess(sim(i), sim(j))}
         IN  filtered[Min(best)]

search_for_replacement(original_title, failed_url, prefer_music, expected_duration, res) ==
    IF SearchQuery(original_title, failed_url) = "" THEN None
    ELSE IF res.rc # 0 THEN None
    ELSE LET candidates == ParsedCandidates(res.cands, VidOf(failed_url))
             original_latin == IF original_title \in {None, ""} THEN FALSE
                               ELSE text.latin[original_title]
             filtered == SelectSeq(candidates,
                             LAMBDA c : PassesFilters(c, original_latin, expected_duration))
         IN  IF filtered = <<>> THEN None
             ELSE (IF prefer_music THEN "https://music.youtube.com/watch?v="
                   ELSE "https://www.youtube.com/watch?v=")
                      \o BestCandidate(filtered, original_title).id

(***************************************************************************)
(* download_track.  The script s holds what the tool answers to each       *)
(* invocation this task may make: s.first (first attempt), s.geo[i] (the   *)
(* i-th region retry), s.probe = [rc, dur] (metadata probe), s.search =    *)
(* [rc, cands] (search), s.repl (replacement download).  The result is the *)
(* returned tuple and, as calls, the invocations made in order.            *)
(***************************************************************************)
ErrorMessage(res) == IF res.rc # 0 /\ res.err # "" THEN StderrMessage(res.err) ELSE None

\* ClassOf, but taking an unclassified failure for an unavailable video
ClassOfOtherAsUnavailable(res) ==
    IF res.rc # 0 /\ res.err # "" /\ text.class[res.err] # FAIL_OTHER THEN text.class[res.err]
    ELSE FAIL_UNAVAILABLE

\* ClassOf, but taking every failure for an unavailable video
ClassOfAlwaysUnavailable(res) == FAIL_UNAVAILABLE

\* classify_failure(error_message or "")
ClassOf(res) == IF res.rc # 0 /\ res.err # "" THEN text.class[res.err] ELSE FAIL_OTHER

\* lines 293-349: the number of region retries made and whether the last one succeeded
GeoSucceeds(s, i, folder, u) ==
    LET r == RunDownload(s.geo[i], folder, u) IN r.rc = 0 /\ r.out # ""

\* GeoLadder, but making the retry of every hint
GeoLadderTriesAll(s, hints, folder, u) ==
    [tried |-> Len(hints), ok |-> \E i \in 1..Len(hints) : GeoSucceeds(s, i, folder, u)]

GeoLadder(s, hints, folder, u) ==
    LET okAt == {i \in 1..Len(hints) : GeoSucceeds(s, i, folder, u)}
    IN  IF okAt = {} THEN [tried |-> Len(hints), ok |-> FALSE]
        ELSE [tried |-> Min(okAt), ok |-> TRUE]

\* FinalOutcome, but reporting the URL of the last invocation made
FinalOutcomeLastTried(rc, url, vid, final_path, error_message, calls) ==
    [ok |-> rc = 0, url |-> calls[Len(calls)].url, vid |-> vid, final_path |-> final_path,
     error_message |-> error_message, calls |-> calls]

\* line 407: the tuple returned when no replacement download succeeded
FinalOutcome(rc, url, vid, final_path, error_message, calls) ==
    [ok |-> rc = 0, url |-> url, vid |-> vid, final_path |-> final_path,
     error_message |-> error_message, calls |-> calls]

\* ExpectedDuration, but reading the duration a failed probe printed
ExpectedDurationOfFailedProbe(probe) == probe.dur

\* lines 360-371: expected_duration after the probe, NoDuration for None
ExpectedDuration(probe) == IF probe.rc = 0 THEN probe.dur ELSE NoDuration

\* FallbackWanted, but for a failure of any category
FallbackWantedAnyCategory(a, rc, error_message, first) ==
    /\ ~a.dry_run
    /\ a.retry_search_if_unavailable
    /\ rc # 0
    /\ error_message # None

\* lines 352-358: the condition of the replacement search; error_message is
\* still the message of the first invocation when the region retries failed
FallbackWanted(a, rc, error_message, first) ==
    /\ ~a.dry_run
    /\ a.retry_search_if_unavailable
    /\ rc # 0
    /\ error_message # None
    /\ ClassOf(first) = FAIL_UNAVAILABLE

download_track(url, folder, a, original_title, s) ==
    LET u == maybe_rewrite_to_ytmusic(url, a.prefer_youtube_music)
        first == RunDownload(s.first, folder, u)
        vid == VidOf(url)
        error_message0 == ErrorMessage(first)
        region == first.rc # 0 /\ first.err # "" /\ ClassOf(first) = FAIL_REGION
        hints == IF region THEN text.hints[first.err] ELSE <<>>
        geo == GeoLadder(s, hints, folder, u)
        geoCalls == [i \in 1..geo.tried |-> Call("download", u, hints[i], a.dry_run, s.geo[i])]
        rc == IF geo.ok THEN 0 ELSE first.rc
        final_path == IF geo.ok THEN ToolPath(folder, u)
                      ELSE IF first.out # "" /\ first.rc = 0 THEN first.out
                      ELSE None
        error_message == IF geo.ok THEN None ELSE error_message0
        fallback == FallbackWanted(a, rc, error_message, first)
        expected_duration == ExpectedDuration(s.probe)
        query == SearchQuery(original_title, url)
        replacement_url == search_for_replacement(original_title, url, a.prefer_youtube_music,
                                                  expected_duration, s.search)
        retry == fallback /\ replacement_url # None /\ replacement_url # url
        u2 == maybe_rewrite_to_ytmusic(replacement_url, a.prefer_youtube_music)
        second == RunDownload(s.repl, folder, u2)
        fallbackCalls ==
            IF ~fallback THEN <<>>
            ELSE <<Call("probe", url, None, TRUE, IF s.probe.rc = 0 THEN OK ELSE "")>>
                 \o (IF query = "" THEN <<>>
                     ELSE <<Call("search", query, None, TRUE, IF s.search.rc = 0 THEN OK ELSE "")>>)
                 \o (IF retry THEN <<Call("download", u2, None, a.dry_run, s.repl)>> ELSE <<>>)
        calls == <<Call("download", u, None, a.dry_run, s.first)>> \o geoCalls \o fallbackCalls
    IN  IF retry /\ second.rc = 0 /\ second.out # ""
        THEN [ok |-> TRUE, url |-> replacement_url, vid |-> VidOf(replacement_url),
              final_path |-> second.out, error_message |-> None, calls |-> calls]
        ELSE FinalOutcome(rc, url, vid, final_path, error_message, calls)
(***************************************************************************)
(* find_existing_downloads.  The library is a set of file paths relative   *)
(* to out_root; the index maps an identifier to one of the paths that      *)
(* carry it (rglob's order decides which is seen first).                   *)
(***************************************************************************)
FileName(path) ==
    LET slashes == Occurrences(path, "/")
    IN  IF slashes = {} THEN path ELSE SubSeq(path, Max(slashes) + 1, Len(path))

\* re.search(r"\[([A-Za-z0-9_-]{11})\]\.[^.]+$", name): group 1, or None
ScanId(name) ==
    LET dots == Occurrences(name, ".")
        d == Max(dots)
    IN  IF dots = {} THEN None
        ELSE IF d = Len(name) \/ d < IdLen + 3 THEN None
        ELSE IF /\ CharAt(name, d - 1) = "]"
                /\ CharAt(name, d - IdLen - 2) = "["
                /\ AllCharsIn(SubSeq(name, d - IdLen - 1, d - 2), IdChars)
             THEN SubSeq(name, d - IdLen - 1, d - 2)
        ELSE None

find_existing_downloads(library) ==
    LET found == {p \in library : ScanId(FileName(p)) # None}
        ids == {ScanId(FileName(p)) : p \in found}
    IN  {vids \in [ids -> found] : \A v \in ids : ScanId(FileName(vids[v])) = v}


(***************************************************************************)
(* Inputs of a run: tracks, playlists, libraries, arguments and tool        *)
(* answers are drawn from these sets.                                       *)
(***************************************************************************)
Track(title, url, videoId) == [title |-> title, url |-> url, videoId |-> videoId]

\* a track with a URL only, one with an identifier only, one with neither
TrackA == Track(TitleA, CanonicalUrl(VidA), None)
TrackB == Track(TitleB, None, VidB)
TrackR == Track(TitleR, CanonicalUrl(VidR), None)
TrackNoSource == Track("No source", None, None)

RunTracks == {TrackA, TrackB, TrackNoSource}

PlaylistTracks == {TrackA, TrackB, TrackR, TrackNoSource}

\* further shapes: no title, a music URL with its identifier, a URL and an
\* identifier that disagree, an identifier with a URL that holds none
TrackMenu ==
    PlaylistTracks \union
    { Track(None, None, VidA),
      Track(TitleB, MusicUrl(VidB), VidB),
      Track(TitleA, CanonicalUrl(VidA), VidB),
      Track(TitleA, UrlOffSite, VidA) }

RECURSIVE SeqsUpTo(_, _)
SeqsUpTo(S, n) ==
    IF n = 0 THEN {<<>>}
    ELSE LET shorter == SeqsUpTo(S, n - 1)
         IN  shorter \union {Append(q, x) : q \in shorter, x \in S}

\* what load_playlist returns for a file: valid = FALSE is None (unreadable or
\* malformed file); the name is the file's stem, see PlaylistName
NoPlaylist == [valid |-> FALSE, tracks |-> <<>>]

\* an entry of a track list that is not an object: JSON null
NullTrack == [null |-> TRUE]

IsObject(t) == "null" \notin DOMAIN t

\* the file passes load_playlist and its track list holds such an entry
WrongTyped(input) ==
    input.valid /\ \E k \in 1..Len(input.tracks) : ~IsObject(input.tracks[k])

PlaylistsOver(tracks, n) == {NoPlaylist} \union {[valid |-> TRUE, tracks |-> ts] : ts \in SeqsUpTo(tracks, n)}

RunPlaylists == PlaylistsOver(RunTracks, MaxTracks)

SingleTrackPlaylists == PlaylistsOver(TrackMenu, 1)

\* the stem of the k-th playlist file
PlaylistName(k) == "List" \o CharAt(DigitChars, k + 1)

LibraryMenu ==
    { {},
      {"Old/Song A [aaaaaaaaaaa].m4a", "Dup/Song A [aaaaaaaaaaa].mp3", "cover.jpg"},
      {"Old/Replacement [rrrrrrrrrrr].m4a"} }

\* the parsed command line; --write-m3u is off unless said
Arguments(concurrency, retry, dry, music) ==
    [concurrency |-> concurrency, retry_search_if_unavailable |-> retry,
     dry_run |-> dry, prefer_youtube_music |-> music, write_m3u |-> FALSE]

\* a run that downloads, with the replacement search on
RunArgs == {Arguments(2, TRUE, FALSE, FALSE)}

ArgsMenu == {Arguments(1, r, d, m) : r \in BOOLEAN, d \in BOOLEAN, m \in BOOLEAN}

\* --concurrency is any int: negative, zero, one, more than one
ConcurrencyMenu == {-1, 0, 1, 2, 3}

PoolArgs == {Arguments(c, TRUE, FALSE, FALSE) : c \in ConcurrencyMenu}

Candidate(id, title, duration, formats) ==
    [id |-> id, title |-> title, duration |-> duration, formats |-> formats]

SearchFailed == [rc |-> 1, cands |-> <<>>]
SearchFound ==
    [rc |-> 0, cands |-> << Candidate(VidA, TitleA, 100, <<"none", "opus">>),
                            Candidate(VidR, TitleR, 100, <<"opus">>) >>]

ProbeFound == [rc |-> 0, dur |-> 100]

\* the probe exits non-zero, dur being the duration in what it printed; it
\* prints metadata without an int duration
ProbeFailed == [rc |-> 1, dur |-> 100]
ProbeNoDuration == [rc |-> 0, dur |-> NoDuration]

\* durations of search results around the limits for an expected 100 s
DurationMenu == {NoDuration, 39, 40, 50, 74, 75, 90, 125, 126}

\* search results: the plain title at every duration, the failed track B
\* itself, other titles, a result without an audio codec
SearchCandidates ==
    {Candidate(VidR, TitleBPlain, d, <<"opus">>) : d \in DurationMenu}
        \union {Candidate(VidB, TitleBPlain, 100, <<"opus">>)}
        \union {Candidate(VidA, t, 100, <<"opus">>) : t \in {TitleBLive, TitleNonLatin, TitleUnknown}}
        \union {Candidate(VidA, TitleBPlain, 100, <<"", "none">>)}

MaxResults == 2

SearchResults ==
    {SearchFailed} \union {[rc |-> 0, cands |-> q] : q \in SeqsUpTo(SearchCandidates, MaxResults)}

AllGeo(kind) == [i \in 1..MaxHints |-> kind]

Script(first, geo, probe, search, repl) ==
    [first |-> first, geo |-> geo, probe |-> probe, search |-> search, repl |-> repl]

\* the tool answers a task of a run may get: done at once, failed for good,
\* unavailable with a replacement found that downloads or does not
RunScripts ==
    { Script(OK, AllGeo(OK), ProbeFound, SearchFailed, OK),
      Script(DiagOther, AllGeo(OK), ProbeFound, SearchFailed, OK),
      Script(DiagUnavailable, AllGeo(OK), ProbeFound, SearchFound, OK),
      Script(DiagUnavailable, AllGeo(OK), ProbeFound, SearchFound, DiagOther) }

\* the first two of them
PlaylistScripts ==
    { Script(f, AllGeo(OK), ProbeFound, SearchFailed, OK) : f \in {OK, DiagOther} }

\* the tool answers of a task looked at on its own
TaskScripts ==
    { Script(f, AllGeo(g), ProbeFound, sr, r) :
        f \in {OK, OK_NOPATH, DiagOther, DiagRegion, DiagRegionList, DiagUnavailable, DiagAge,
               DiagPremium} \union MixedDiags,
        g \in {OK, DiagRegion, DiagUnavailable},
        sr \in {SearchFailed, SearchFound},
        r \in {OK, DiagOther} }

\* the tool answers of a region-blocked task: every list of countries, every
\* run of answers to the retries
RegionScripts ==
    { Script(f, g, ProbeFound, SearchFailed, OK) :
        f \in RegionDiags, g \in [1..MaxHints -> {OK, OK_NOPATH, DiagOther}] }

RegionArgs == {Arguments(1, TRUE, d, FALSE) : d \in BOOLEAN}

\* the tool answers of an unavailable task: every probe, every search result
SearchScripts ==
    { Script(DiagUnavailable, AllGeo(OK), p, sr, r) :
        p \in {ProbeFound, ProbeFailed, ProbeNoDuration}, sr \in SearchResults,
        r \in {OK, DiagOther} }

\* a track with a title, one without, one whose title is all in brackets
SearchTracks == {TrackB, Track(None, None, VidA), Track(TitleBracketed, None, VidB)}

SearchArgs == {Arguments(1, TRUE, FALSE, m) : m \in BOOLEAN}

(***************************************************************************)
(* The progress postfix of lines 678-741.  Times are whole seconds and     *)
(* quotients are exact fractions <<numerator, denominator>>; float("inf")  *)
(* is <<1, 0>>.                                                            *)
(***************************************************************************)
Inf == <<1, 0>>

RECURSIVE Decimal(_)
\* str(n) for n >= 0
Decimal(n) ==
    IF n < 10 THEN CharAt(DigitChars, n + 1)
    ELSE Decimal(n \div 10) \o CharAt(DigitChars, (n % 10) + 1)

\* the format {n:02d} for n >= 0
TwoDigits(n) == IF n < 10 THEN "0" \o Decimal(n) ELSE Decimal(n)

\* lines 694-704
fmt_eta(seconds) ==
    IF seconds = Inf \/ seconds[1] < 0 THEN "--:--"
    ELSE LET whole == seconds[1] \div seconds[2]
         IN  IF whole >= 3600
             THEN Decimal(whole \div 3600) \o ":" \o TwoDigits((whole % 3600) \div 60)
                      \o ":" \o TwoDigits(whole % 60)
             ELSE TwoDigits(whole \div 60) \o ":" \o TwoDigits(whole % 60)

FracMin(x, y) == IF FracLess(y, x) THEN y ELSE x
FracMax(x, y) == IF FracLess(x, y) THEN y ELSE x

\* Python's result of final_path.stat() raising
StatFailed == -1

\* the size of every file and the clock at every completion, where a run
\* does not vary them
RunSizes == {3}
RunClock == {2}

\* st_size of a downloaded file: stat() raises, an empty file, some bytes
EtaSizes == {StatFailed, 0, 4}

\* time.time() - start_time when a future is taken, in seconds
EtaClock == {0, 12, 7200}

\* lines 680-682, 691: the counters of the loop before any future is taken
NoProgress ==
    [downloaded_bytes |-> 0, success_count_so_far |-> 0, failed_count |-> 0,
     elapsed |-> 0, postfix |-> None]

\* EtaBlend, but never clamping the throughput estimate
EtaBlendNeverClamped(p, total_tasks) ==
    LET processed == p.success_count_so_far + p.failed_count
        remaining == total_tasks - processed
        eta_time == IF processed # 0 THEN <<p.elapsed * remaining, processed>> ELSE Inf
        eta_size == <<p.downloaded_bytes * remaining * p.elapsed,
                      p.success_count_so_far * p.downloaded_bytes>>
    IN  IF p.success_count_so_far > 0 /\ p.downloaded_bytes > 0 /\ p.elapsed > 0
        THEN eta_size
        ELSE eta_time

\* lines 723-740: eta from the counters p after a future has been taken
EtaBlend(p, total_tasks) ==
    LET processed == p.success_count_so_far + p.failed_count
        remaining == total_tasks - processed
        elapsed == p.elapsed
        eta_time == IF processed # 0 THEN <<elapsed * remaining, processed>> ELSE Inf
        avg_speed == <<p.downloaded_bytes, elapsed>>
        avg_size_per_track == <<p.downloaded_bytes, p.success_count_so_far>>
        remaining_bytes == <<avg_size_per_track[1] * remaining, avg_size_per_track[2]>>
        eta_size == <<remaining_bytes[1] * avg_speed[2], remaining_bytes[2] * avg_speed[1]>>
    IN  IF p.success_count_so_far > 0 /\ p.downloaded_bytes > 0 /\ elapsed > 0
        THEN IF FracLess(<<0, 1>>, avg_speed)
             THEN IF processed > 1
                  THEN FracMin(FracMax(eta_size, <<0, 1>>), <<3 * eta_time[1], eta_time[2]>>)
                  ELSE eta_size
             ELSE eta_time
        ELSE eta_time

\* lines 708-741: the counters after a future is taken, ok telling whether it
\* counts as a success, size being st_size of its file and elapsed the clock
UpdateProgress(p, ok, size, elapsed, total_tasks, installed) ==
    LET counted ==
            IF ok THEN [p EXCEPT !.success_count_so_far = @ + 1,
                                 !.downloaded_bytes = IF size = StatFailed THEN @ ELSE @ + size]
            ELSE [p EXCEPT !.failed_count = @ + 1]
        timed == [counted EXCEPT !.elapsed = elapsed]
    IN  IF installed
        THEN [timed EXCEPT !.postfix = "ETA " \o fmt_eta(EtaBlend(timed, total_tasks))
                                           \o " | failed: " \o Decimal(timed.failed_count)]
        ELSE counted

(***************************************************************************)
(* write_m3u_for_playlist, lines 567-585.  A file is the sequence of the   *)
(* strings written to it; paths are kept relative to out_root, which is    *)
(* what relative_to(library_root).as_posix() makes of them.                *)
(***************************************************************************)
\* printable ASCII characters in code point order
CodeOrder ==
    " !\"#$%&'()*+,-./0123456789:;<=>?@" \o UpperChars \o "[\\]^_" \o LowerChars \o "{|}~"

\* Python's a < b on str
RECURSIVE StrLess(_, _)
StrLess(a, b) ==
    IF b = "" THEN FALSE
    ELSE IF a = "" THEN TRUE
    ELSE IF CharAt(a, 1) = CharAt(b, 1) THEN StrLess(SubSeq(a, 2, Len(a)), SubSeq(b, 2, Len(b)))
    ELSE PosIn(CharAt(a, 1), CodeOrder) < PosIn(CharAt(b, 1), CodeOrder)

\* sorted(...) of a list of [key, p] pairs by key: Python's sort is stable
RECURSIVE SortedByKey(_)
SortedByKey(pairs) ==
    IF pairs = <<>> THEN <<>>
    ELSE LET rest == SortedByKey(SubSeq(pairs, 1, Len(pairs) - 1))
             last == pairs[Len(pairs)]
             before == SelectSeq(rest, LAMBDA x : ~StrLess(last.key, x.key))
             after == SelectSeq(rest, LAMBDA x : StrLess(last.key, x.key))
         IN  before \o <<last>> \o after

\* line 569: re.sub(r'[\\/*?:"<>|]', "_", playlist_name)
RECURSIVE SafeName(_)
SafeName(name) ==
    IF name = "" THEN ""
    ELSE (IF InChars(CharAt(name, 1), "\\/*?:\"<>|") THEN "_" ELSE CharAt(name, 1))
             \o SafeName(SubSeq(name, 2, Len(name)))

M3uMarker == "#EXTM3U\n"

\* write_m3u_for_playlist, but sorting by the file name as it is spelled
write_m3u_for_playlistCaseSensitive(written, name, files, io_ok) ==
    LET m3u_path == SafeName(name) \o ".m3u8"
        sorted_files == SortedByKey([k \in 1..Len(files) |->
                                        [key |-> FileName(files[k]), p |-> files[k]]])
    IN  IF io_ok
        THEN MapPut(written, m3u_path,
                    <<M3uMarker>> \o [k \in 1..Len(sorted_files) |-> sorted_files[k].p \o "\n"])
        ELSE written

\* lines 567-585: the files under out_root after the call, written being those
\* before it; io_ok = FALSE is open() raising, which line 584 reports
write_m3u_for_playlist(written, name, files, io_ok) ==
    LET m3u_path == SafeName(name) \o ".m3u8"
        sorted_files == SortedByKey([k \in 1..Len(files) |->
                                        [key |-> Lower(FileName(files[k])), p |-> files[k]]])
    IN  IF io_ok
        THEN MapPut(written, m3u_path,
                    <<M3uMarker>> \o [k \in 1..Len(sorted_files) |-> sorted_files[k].p \o "\n"])
        ELSE written

\* lines 647-648 and 756-757
MaybeWriteM3u(a, written, name, files) ==
    IF a.write_m3u /\ files # <<>>
    THEN {write_m3u_for_playlist(written, name, files, io_ok) : io_ok \in BOOLEAN}
    ELSE {written}

(***************************************************************************)
(* State of a run.                                                         *)
(***************************************************************************)
VARIABLES
    pc,                   \* where main is: "start", "next", "pool", "return", "summary", "exit"
    args,                 \* the parsed command line
    downloaded_vids,      \* the dedup index: identifier -> path
    json_count,           \* len(json_paths)
    jp,                   \* number of playlist files main's loop has finished
    total_success, total_failures, total_skipped, all_failed_urls,
    playlist_name, playlist_track_files, skipped_count,
    failed_urls, download_errors,
    futs,                 \* the futures of the pool: [url, title, track_vid, st, res]
    failure_log,          \* failed_downloads.log: [written, urls]
    exit_status,          \* main's return value, NotExited while it runs
    tqdm,                 \* whether the import of tqdm succeeded (lines 34-37)
    progress,             \* the counters and the postfix of the progress bar
    m3u_files,            \* the .m3u8 files under out_root: name -> lines
    hist                  \* history of the run, read by the properties only

vars == <<pc, args, downloaded_vids, json_count, jp, total_success, total_failures,
          total_skipped, all_failed_urls, playlist_name, playlist_track_files,
          skipped_count, failed_urls, download_errors, futs, failure_log, exit_status, hist,
          text, tqdm, progress, m3u_files>>

mainVars == <<total_success, total_failures, total_skipped, all_failed_urls>>
playlistVars == <<playlist_name, playlist_track_files, skipped_count, failed_urls, download_errors, futs>>

NotExited == -1

NoResult == [ok |-> FALSE, url |-> None, vid |-> None, final_path |-> None,
             error_message |-> None, calls |-> <<>>]

NoLog == [written |-> FALSE, urls |-> <<>>]

EmptyIndex == [v \in {} |-> None]

NoHist == [root |-> "", seed |-> {}, seen |-> {}, N |-> 0, K |-> 0, tasks |-> 0,
           sub |-> [v \in Ids |-> 0], succ |-> [v \in Ids |-> 0],
           failedTasks |-> {}, logWrites |-> 0, logRaised |-> FALSE,
           expNew |-> <<>>, expOld |-> <<>>, scenario |-> <<>>,
           taken |-> 0, okVids |-> {}, writes |-> {},
           index0 |-> EmptyIndex, outcomes |-> <<>>, twin |-> <<>>, answers |-> <<>>,
           invalid |-> 0, sums |-> [ok |-> 0, failed |-> 0, skipped |-> 0], unres |-> 0,
           uncounted |-> {}]

\* history: the answers of the tool to a task, before it has ended
NoAnswers == Script("", AllGeo(""), ProbeFailed, SearchFailed, "")

\* history: what a task of the playlist ended with, before it has ended
NoOutcome == [ok |-> FALSE, vid |-> None, final_path |-> None]

InitEnv(menu, installed) ==
    /\ pc = "start"
    /\ args \in menu
    /\ tqdm \in installed
    /\ progress = NoProgress
    /\ m3u_files = EmptyIndex
    /\ downloaded_vids = EmptyIndex
    /\ json_count = 0
    /\ jp = 0
    /\ total_success = 0
    /\ total_failures = 0
    /\ total_skipped = 0
    /\ all_failed_urls = <<>>
    /\ playlist_name = None
    /\ playlist_track_files = <<>>
    /\ skipped_count = 0
    /\ failed_urls = <<>>
    /\ download_errors = <<>>
    /\ futs = <<>>
    /\ failure_log = NoLog
    /\ exit_status = NotExited
    /\ hist = NoHist
    /\ text = TextTables

\* a run with tqdm installed
InitWith(menu) == InitEnv(menu, {TRUE})

Init == InitWith(RunArgs)

(***************************************************************************)
(* main, lines 790-822.                                                    *)
(***************************************************************************)
\* lines 794-796: the takeout path does not exist
MainRootMissing ==
    /\ pc = "start"
    /\ pc' = "exit"
    /\ exit_status' = 2
    /\ hist' = [hist EXCEPT !.root = "missing"]
    /\ UNCHANGED <<args, text, tqdm, progress, m3u_files, downloaded_vids, json_count, jp, mainVars, playlistVars, failure_log>>

\* MainNoPlaylists, but returning 0 whatever the scan found
MainNoPlaylistsExitZero(library) ==
    /\ pc = "start"
    /\ \E vids \in find_existing_downloads(library) :
          /\ downloaded_vids' = vids
          /\ exit_status' = 0
          /\ hist' = [hist EXCEPT !.root = "found", !.seed = DOMAIN vids, !.seen = DOMAIN vids]
    /\ pc' = "exit"
    /\ UNCHANGED <<args, text, tqdm, progress, m3u_files, json_count, jp, mainVars, playlistVars, failure_log>>

\* lines 799-813: the scan, and no playlist file found
MainNoPlaylists(library) ==
    /\ pc = "start"
    /\ \E vids \in find_existing_downloads(library) :
          /\ downloaded_vids' = vids
          /\ exit_status' = IF DOMAIN vids # {} THEN 0 ELSE 1
          /\ hist' = [hist EXCEPT !.root = "found", !.seed = DOMAIN vids, !.seen = DOMAIN vids]
    /\ pc' = "exit"
    /\ UNCHANGED <<args, text, tqdm, progress, m3u_files, json_count, jp, mainVars, playlistVars, failure_log>>

\* lines 799-822: the scan, and json_paths holds n files
MainBegin(library, n) ==
    /\ pc = "start"
    /\ \E vids \in find_existing_downloads(library) :
          /\ downloaded_vids' = vids
          /\ hist' = [hist EXCEPT !.root = "found", !.seed = DOMAIN vids, !.seen = DOMAIN vids]
    /\ json_count' = n
    /\ pc' = "next"
    /\ UNCHANGED <<args, text, tqdm, progress, m3u_files, jp, mainVars, playlistVars, failure_log, exit_status>>

(***************************************************************************)
(* process_playlist, lines 597-692: load, resolve, partition, submit.      *)
(***************************************************************************)
\* lines 615-625: the (url, vid) pair of a track
resolve_track(t) ==
    LET url == IF t.videoId # None /\ t.url = None THEN CanonicalUrl(t.videoId) ELSE t.url
        vid == IF url # None /\ t.videoId = None THEN VidOf(url) ELSE t.videoId
    IN  [url |-> url, vid |-> vid]

Resolvable(t) == resolve_track(t).url # None /\ resolve_track(t).vid # None

NoTasks == [urls |-> <<>>, track_vids |-> <<>>, url_title_map |-> EmptyIndex,
            files |-> <<>>, skipped |-> 0]

\* PartitionTracks, but forgetting the path of a track already held
RECURSIVE PartitionTracksDropHeld(_, _, _)
PartitionTracksDropHeld(tracks, index, acc) ==
    IF tracks = <<>> THEN acc
    ELSE LET t == Head(tracks)
             r == resolve_track(t)
             next ==
                 IF ~(r.url # None /\ r.vid # None) THEN acc
                 ELSE IF r.vid \notin DOMAIN index
                 THEN [acc EXCEPT !.urls = Append(@, r.url),
                                  !.track_vids = Append(@, r.vid),
                                  !.url_title_map = IF t.title \notin {None, ""}
                                                    THEN MapPut(@, r.url, t.title) ELSE @]
                 ELSE [acc EXCEPT !.skipped = @ + 1]
         IN  PartitionTracksDropHeld(Tail(tracks), index, next)

\* PartitionTracks, but counting a track that resolves to no pair as skipped
RECURSIVE PartitionTracksCountsDropped(_, _, _)
PartitionTracksCountsDropped(tracks, index, acc) ==
    IF tracks = <<>> THEN acc
    ELSE LET t == Head(tracks)
             r == resolve_track(t)
             next ==
                 IF ~(r.url # None /\ r.vid # None) THEN [acc EXCEPT !.skipped = @ + 1]
                 ELSE IF r.vid \notin DOMAIN index
                 THEN [acc EXCEPT !.urls = Append(@, r.url),
                                  !.track_vids = Append(@, r.vid),
                                  !.url_title_map = IF t.title \notin {None, ""}
                                                    THEN MapPut(@, r.url, t.title) ELSE @]
                 ELSE [acc EXCEPT !.skipped = @ + 1,
                                  !.files = Append(@, index[r.vid])]
         IN  PartitionTracksCountsDropped(Tail(tracks), index, next)

\* the loop of lines 614-640 over the tracks, acc being the locals it fills
RECURSIVE PartitionTracks(_, _, _)
PartitionTracks(tracks, index, acc) ==
    IF tracks = <<>> THEN acc
    ELSE LET t == Head(tracks)
             r == resolve_track(t)
             next ==
                 IF ~(r.url # None /\ r.vid # None) THEN acc
                 ELSE IF r.vid \notin DOMAIN index
                 THEN [acc EXCEPT !.urls = Append(@, r.url),
                                  !.track_vids = Append(@, r.vid),
                                  !.url_title_map = IF t.title \notin {None, ""}
                                                    THEN MapPut(@, r.url, t.title) ELSE @]
                 ELSE [acc EXCEPT !.skipped = @ + 1,
                                  !.files = Append(@, index[r.vid])]
         IN  PartitionTracks(Tail(tracks), index, next)

\* lines 656-676: one future per url, in order; track_vid is the identifier the
\* scheduler resolved for the track (kept for the properties)
SubmitAll(p) ==
    [i \in 1..Len(p.urls) |->
        [url |-> p.urls[i], title |-> MapGet(p.url_title_map, p.urls[i]),
         track_vid |-> p.track_vids[i], st |-> "queued", res |-> NoResult]]

\* history: the resolvable tracks met (N) and those repeating an identifier met
\* in an earlier track (K)
RECURSIVE HistTracks(_, _)
HistTracks(tracks, h) ==
    IF tracks = <<>> THEN h
    ELSE LET r == resolve_track(Head(tracks))
             next ==
                 IF ~Resolvable(Head(tracks)) THEN h
                 ELSE [h EXCEPT !.N = @ + 1,
                                !.K = IF r.vid \in h.seen THEN @ + 1 ELSE @,
                                !.seen = @ \union {r.vid}]
         IN  HistTracks(Tail(tracks), next)

\* history: the tasks submitted, in all and per identifier of their track
RECURSIVE CountSubmitted(_, _)
CountSubmitted(fs, h) ==
    IF fs = <<>> THEN h
    ELSE CountSubmitted(Tail(fs), [h EXCEPT !.tasks = @ + 1, !.sub[Head(fs).track_vid] = @ + 1])

\* history: the number of tracks of this playlist that resolve to no pair, and
\* what the partition of this playlist has to be, said over the whole
\* track list: the urls of the tracks to download, the paths of those already
\* held, and, for a playlist of three tracks of which just the second is held,
\* the urls of its first and third track
ExpectedPartition(tracks, index, h) ==
    LET res == SelectSeq(tracks, Resolvable)
        held(t) == resolve_track(t).vid \in DOMAIN index
        new == SelectSeq(res, LAMBDA t : ~held(t))
        old == SelectSeq(res, held)
    IN  [h EXCEPT !.unres = Len(tracks) - Len(res),
                  !.expNew = [i \in 1..Len(new) |-> resolve_track(new[i]).url],
                  !.expOld = [i \in 1..Len(old) |-> index[resolve_track(old[i]).vid]],
                  !.scenario = IF /\ Len(tracks) = 3
                                  /\ \A i \in 1..3 : Resolvable(tracks[i])
                                  /\ ~held(tracks[1]) /\ held(tracks[2]) /\ ~held(tracks[3])
                               THEN <<resolve_track(tracks[1]).url, resolve_track(tracks[3]).url>>
                               ELSE <<>>]

\* lines 597-692: load the next playlist file and build its task list.  A
\* file load_playlist rejects and a playlist with nothing new go straight to
\* the return; otherwise the pool is created and every task submitted.  The
\* run submits at most budget tasks.  A file whose track list holds an entry
\* that is not an object passes load_playlist; line 615 then raises
\* AttributeError, which nothing catches: the interpreter exits with status 1.
StartPlaylist(input, budget) ==
    /\ pc = "next"
    /\ IF WrongTyped(input)
       THEN /\ pc' = "exit"
            /\ exit_status' = 1
            /\ hist' = [hist EXCEPT !.invalid = @ + 1]
            /\ UNCHANGED <<args, text, tqdm, progress, m3u_files, downloaded_vids, json_count,
                           jp, mainVars, playlistVars, failure_log>>
       ELSE /\ LET p == IF input.valid
                        THEN PartitionTracks(input.tracks, downloaded_vids, NoTasks)
                        ELSE NoTasks
                   e == ExpectedPartition(input.tracks, downloaded_vids,
                                          HistTracks(input.tracks, hist))
                   h == IF input.valid
                        THEN [e EXCEPT !.sums.skipped = @ + Len(e.expOld)]
                        ELSE [hist EXCEPT !.invalid = @ + 1]
               IN  /\ hist.tasks + Len(p.urls) <= budget
                   /\ playlist_name' = IF input.valid THEN PlaylistName(jp + 1) ELSE None
                   /\ playlist_track_files' = p.files
                   /\ skipped_count' = p.skipped
                   /\ futs' = SubmitAll(p)
                   /\ hist' = [CountSubmitted(SubmitAll(p), h) EXCEPT
                                  !.index0 = downloaded_vids,
                                  !.outcomes = [i \in 1..Len(p.urls) |-> NoOutcome],
                                  !.twin = [i \in 1..Len(p.urls) |-> <<>>],
                                  !.answers = [i \in 1..Len(p.urls) |-> NoAnswers]]
                   /\ pc' = IF p.urls = <<>> THEN "return" ELSE "pool"
                   /\ progress' = IF p.urls # <<>> /\ tqdm
                                  THEN [NoProgress EXCEPT !.postfix = "ETA --:-- | failed: 0"]
                                  ELSE NoProgress
                   /\ m3u_files' \in
                          IF input.valid /\ p.urls = <<>>
                          THEN MaybeWriteM3u(args, m3u_files, PlaylistName(jp + 1), p.files)
                          ELSE {m3u_files}
            /\ failed_urls' = <<>>
            /\ download_errors' = <<>>
            /\ UNCHANGED <<args, text, tqdm, downloaded_vids, json_count, jp, mainVars,
                           failure_log, exit_status>>

(***************************************************************************)
(* The pool of lines 655-676 and the tasks it runs.                        *)
(***************************************************************************)
\* PoolWidth, but with a least width of two
PoolWidthAtLeastTwo == IF args.concurrency > 2 THEN args.concurrency ELSE 2

\* line 655: max_workers
PoolWidth == IF args.concurrency > 1 THEN args.concurrency ELSE 1

Running == {i \in 1..Len(futs) : futs[i].st = "running"}
Queued == {i \in 1..Len(futs) : futs[i].st = "queued"}

\* a free worker takes the oldest queued task
WorkerStart ==
    /\ pc = "pool"
    /\ Queued # {}
    /\ Cardinality(Running) < PoolWidth
    /\ futs' = [futs EXCEPT ![Min(Queued)].st = "running"]
    /\ UNCHANGED <<pc, args, text, tqdm, progress, m3u_files, downloaded_vids, json_count, jp, mainVars, playlist_name,
                   playlist_track_files, skipped_count, failed_urls, download_errors,
                   failure_log, exit_status, hist>>

\* line 708: what the scheduler takes for a success
Succeeded(res) == res.ok /\ res.vid # None /\ res.final_path # None

\* WorkerFinish, but the worker of a success writes the index itself
WorkerFinishWritesIndex(i, s) ==
    /\ pc = "pool"
    /\ i \in Running
    /\ LET res == download_track(futs[i].url, playlist_name, args, futs[i].title, s)
           twin == download_track(futs[i].url, playlist_name, [args EXCEPT !.dry_run = FALSE],
                                  futs[i].title, s)
       IN  /\ futs' = [futs EXCEPT ![i].st = "done", ![i].res = res]
           /\ downloaded_vids' = IF Succeeded(res)
                                  THEN MapPut(downloaded_vids, res.vid, res.final_path)
                                  ELSE downloaded_vids
           /\ hist' = IF Succeeded(res)
                      THEN [hist EXCEPT !.succ[futs[i].track_vid] = @ + 1,
                                        !.okVids = @ \union {res.vid},
                                        !.outcomes[i] = [ok |-> TRUE, vid |-> res.vid,
                                                         final_path |-> res.final_path],
                                        !.twin[i] = twin.calls,
                                        !.answers[i] = s]
                      ELSE [hist EXCEPT !.failedTasks = @ \union {futs[i].url},
                                        !.uncounted = IF res.ok
                                                      THEN @ \union {[url |-> res.url,
                                                                       vid |-> res.vid,
                                                                       final_path |-> res.final_path]}
                                                      ELSE @,
                                        !.twin[i] = twin.calls,
                                        !.answers[i] = s]
    /\ UNCHANGED <<pc, args, text, tqdm, progress, m3u_files, json_count, jp, mainVars,
                   playlist_name, playlist_track_files, skipped_count, failed_urls,
                   download_errors, failure_log, exit_status>>

\* a worker runs download_track to its end; the tool's answers are s.  The
\* history keeps, until the outcome is taken, the invocations the same task
\* makes on the same answers with --dry-run off (twin) and the answers, and
\* for the run the outcomes reported successful without an identifier or a
\* path (uncounted)
WorkerFinish(i, s) ==
    /\ pc = "pool"
    /\ i \in Running
    /\ LET res == download_track(futs[i].url, playlist_name, args, futs[i].title, s)
           twin == download_track(futs[i].url, playlist_name, [args EXCEPT !.dry_run = FALSE],
                                  futs[i].title, s)
       IN  /\ futs' = [futs EXCEPT ![i].st = "done", ![i].res = res]
           /\ hist' = IF Succeeded(res)
                      THEN [hist EXCEPT !.succ[futs[i].track_vid] = @ + 1,
                                        !.okVids = @ \union {res.vid},
                                        !.outcomes[i] = [ok |-> TRUE, vid |-> res.vid,
                                                         final_path |-> res.final_path],
                                        !.twin[i] = twin.calls,
                                        !.answers[i] = s]
                      ELSE [hist EXCEPT !.failedTasks = @ \union {futs[i].url},
                                        !.uncounted = IF res.ok
                                                      THEN @ \union {[url |-> res.url,
                                                                       vid |-> res.vid,
                                                                       final_path |-> res.final_path]}
                                                      ELSE @,
                                        !.twin[i] = twin.calls,
                                        !.answers[i] = s]
    /\ UNCHANGED <<pc, args, text, tqdm, progress, m3u_files, downloaded_vids, json_count, jp, mainVars, playlist_name,
                   playlist_track_files, skipped_count, failed_urls, download_errors,
                   failure_log, exit_status>>

\* history: the coordinator has taken the outcome of the playlist's i-th task,
\* writing the index under key (None: no write); a task is named by its
\* number in the run.  sums counts the outcomes taken in the run, successes
\* and failures, and the tracks found held when their playlist was loaded
Taken(i, key) ==
    [hist EXCEPT !.taken = @ + 1,
                 !.sums.ok = IF Succeeded(futs[i].res) THEN @ + 1 ELSE @,
                 !.sums.failed = IF Succeeded(futs[i].res) THEN @ ELSE @ + 1,
                 !.twin[i] = <<>>,
                 !.answers[i] = NoAnswers,
                 !.writes = IF key = None THEN @
                            ELSE @ \union {[task |-> hist.tasks - Len(futs) + i,
                                            track_vid |-> futs[i].track_vid, key |-> key]}]

\* ConsumeOutcome, but a success taken after a failure is left out of the index
ConsumeOutcomeUnlessFailed(i, size, elapsed) ==
    /\ pc = "pool"
    /\ i \in 1..Len(futs)
    /\ futs[i].st = "done"
    /\ elapsed >= progress.elapsed
    /\ progress' = UpdateProgress(progress, Succeeded(futs[i].res), size, elapsed,
                                  Len(futs), tqdm)
    /\ LET res == futs[i].res
       IN  IF res.ok /\ res.vid # None /\ res.final_path # None
           THEN /\ downloaded_vids' = IF failed_urls = <<>>
                                      THEN MapPut(downloaded_vids, res.vid, res.final_path)
                                      ELSE downloaded_vids
                /\ playlist_track_files' = Append(playlist_track_files, res.final_path)
                /\ hist' = Taken(i, res.vid)
                /\ UNCHANGED <<failed_urls, download_errors>>
           ELSE /\ failed_urls' = Append(failed_urls, res.url)
                /\ download_errors' = IF res.error_message # None
                                      THEN Append(download_errors, res.error_message)
                                      ELSE download_errors
                /\ hist' = Taken(i, None)
                /\ UNCHANGED <<downloaded_vids, playlist_track_files>>
    /\ futs' = [futs EXCEPT ![i].st = "consumed", ![i].res = NoResult]
    /\ UNCHANGED <<pc, args, text, tqdm, m3u_files, json_count, jp, mainVars, playlist_name, skipped_count,
                   failure_log, exit_status>>

\* ConsumeOutcome, but indexing a success under the identifier of the track
ConsumeOutcomeTrackId(i, size, elapsed) ==
    /\ pc = "pool"
    /\ i \in 1..Len(futs)
    /\ futs[i].st = "done"
    /\ elapsed >= progress.elapsed
    /\ progress' = UpdateProgress(progress, Succeeded(futs[i].res), size, elapsed,
                                  Len(futs), tqdm)
    /\ LET res == futs[i].res
       IN  IF res.ok /\ res.vid # None /\ res.final_path # None
           THEN /\ downloaded_vids' = MapPut(downloaded_vids, futs[i].track_vid, res.final_path)
                /\ playlist_track_files' = Append(playlist_track_files, res.final_path)
                /\ hist' = Taken(i, futs[i].track_vid)
                /\ UNCHANGED <<failed_urls, download_errors>>
           ELSE /\ failed_urls' = Append(failed_urls, res.url)
                /\ download_errors' = IF res.error_message # None
                                      THEN Append(download_errors, res.error_message)
                                      ELSE download_errors
                /\ hist' = Taken(i, None)
                /\ UNCHANGED <<downloaded_vids, playlist_track_files>>
    /\ futs' = [futs EXCEPT ![i].st = "consumed", ![i].res = NoResult]
    /\ UNCHANGED <<pc, args, text, tqdm, m3u_files, json_count, jp, mainVars, playlist_name, skipped_count,
                   failure_log, exit_status>>

\* ConsumeOutcome, but listing for the playlist the file a failed task was to write
ConsumeOutcomeListsFailed(i, size, elapsed) ==
    /\ pc = "pool"
    /\ i \in 1..Len(futs)
    /\ futs[i].st = "done"
    /\ elapsed >= progress.elapsed
    /\ progress' = UpdateProgress(progress, Succeeded(futs[i].res), size, elapsed,
                                  Len(futs), tqdm)
    /\ LET res == futs[i].res
       IN  IF res.ok /\ res.vid # None /\ res.final_path # None
           THEN /\ downloaded_vids' = MapPut(downloaded_vids, res.vid, res.final_path)
                /\ playlist_track_files' = Append(playlist_track_files, res.final_path)
                /\ hist' = Taken(i, res.vid)
                /\ UNCHANGED <<failed_urls, download_errors>>
           ELSE /\ failed_urls' = Append(failed_urls, res.url)
                /\ download_errors' = IF res.error_message # None
                                      THEN Append(download_errors, res.error_message)
                                      ELSE download_errors
                /\ playlist_track_files' = Append(playlist_track_files,
                                                  ToolPath(playlist_name, futs[i].url))
                /\ hist' = Taken(i, None)
                /\ UNCHANGED downloaded_vids
    /\ futs' = [futs EXCEPT ![i].st = "consumed", ![i].res = NoResult]
    /\ UNCHANGED <<pc, args, text, tqdm, m3u_files, json_count, jp, mainVars, playlist_name,
                   skipped_count, failure_log, exit_status>>

\* ConsumeOutcome, but taking every outcome reported successful for a download
ConsumeOutcomeOkOnly(i, size, elapsed) ==
    /\ pc = "pool"
    /\ i \in 1..Len(futs)
    /\ futs[i].st = "done"
    /\ elapsed >= progress.elapsed
    /\ progress' = UpdateProgress(progress, futs[i].res.ok, size, elapsed, Len(futs), tqdm)
    /\ LET res == futs[i].res
       IN  IF res.ok
           THEN /\ downloaded_vids' = MapPut(downloaded_vids, res.vid, res.final_path)
                /\ playlist_track_files' = Append(playlist_track_files, res.final_path)
                /\ hist' = Taken(i, res.vid)
                /\ UNCHANGED <<failed_urls, download_errors>>
           ELSE /\ failed_urls' = Append(failed_urls, res.url)
                /\ download_errors' = IF res.error_message # None
                                      THEN Append(download_errors, res.error_message)
                                      ELSE download_errors
                /\ hist' = Taken(i, None)
                /\ UNCHANGED <<downloaded_vids, playlist_track_files>>
    /\ futs' = [futs EXCEPT ![i].st = "consumed", ![i].res = NoResult]
    /\ UNCHANGED <<pc, args, text, tqdm, m3u_files, json_count, jp, mainVars, playlist_name,
                   skipped_count, failure_log, exit_status>>

\* lines 706-720: the coordinator takes one completed future
ConsumeOutcome(i, size, elapsed) ==
    /\ pc = "pool"
    /\ i \in 1..Len(futs)
    /\ futs[i].st = "done"
    /\ elapsed >= progress.elapsed
    /\ progress' = UpdateProgress(progress, Succeeded(futs[i].res), size, elapsed,
                                  Len(futs), tqdm)
    /\ LET res == futs[i].res
       IN  IF res.ok /\ res.vid # None /\ res.final_path # None
           THEN /\ downloaded_vids' = MapPut(downloaded_vids, res.vid, res.final_path)
                /\ playlist_track_files' = Append(playlist_track_files, res.final_path)
                /\ hist' = Taken(i, res.vid)
                /\ UNCHANGED <<failed_urls, download_errors>>
           ELSE /\ failed_urls' = Append(failed_urls, res.url)
                /\ download_errors' = IF res.error_message # None
                                      THEN Append(download_errors, res.error_message)
                                      ELSE download_errors
                /\ hist' = Taken(i, None)
                /\ UNCHANGED <<downloaded_vids, playlist_track_files>>
    /\ futs' = [futs EXCEPT ![i].st = "consumed", ![i].res = NoResult]
    /\ UNCHANGED <<pc, args, text, tqdm, m3u_files, json_count, jp, mainVars, playlist_name, skipped_count,
                   failure_log, exit_status>>

\* FinishPool, but closing the pool once one outcome has been taken
FinishPoolEarly ==
    /\ pc = "pool"
    /\ \E i \in 1..Len(futs) : futs[i].st = "consumed"
    /\ pc' = "return"
    /\ m3u_files' \in MaybeWriteM3u(args, m3u_files, playlist_name, playlist_track_files)
    /\ UNCHANGED <<args, text, tqdm, progress, downloaded_vids, json_count, jp, mainVars, playlistVars,
                   failure_log, exit_status, hist>>

\* lines 743-757: as_completed is exhausted, the pool is closed, the summary printed
FinishPool ==
    /\ pc = "pool"
    /\ \A i \in 1..Len(futs) : futs[i].st = "consumed"
    /\ pc' = "return"
    /\ m3u_files' \in MaybeWriteM3u(args, m3u_files, playlist_name, playlist_track_files)
    /\ UNCHANGED <<args, text, tqdm, progress, downloaded_vids, json_count, jp, mainVars, playlistVars,
                   failure_log, exit_status, hist>>

\* ReturnPlaylist, but leaving the loop over the playlists after a failure
ReturnPlaylistAbortOnFailure ==
    /\ pc = "return"
    /\ total_success' = total_success + (Len(futs) - Len(failed_urls))
    /\ total_failures' = total_failures + Len(failed_urls)
    /\ total_skipped' = total_skipped + skipped_count
    /\ all_failed_urls' = all_failed_urls \o failed_urls
    /\ jp' = jp + 1
    /\ pc' = IF jp + 1 = json_count \/ failed_urls # <<>> THEN "summary" ELSE "next"
    /\ playlist_name' = None
    /\ playlist_track_files' = <<>>
    /\ skipped_count' = 0
    /\ failed_urls' = <<>>
    /\ download_errors' = <<>>
    /\ futs' = <<>>
    /\ progress' = NoProgress
    /\ hist' = [hist EXCEPT !.expNew = <<>>, !.expOld = <<>>, !.scenario = <<>>,
                             !.index0 = EmptyIndex, !.outcomes = <<>>, !.twin = <<>>,
                             !.answers = <<>>]
    /\ UNCHANGED <<args, text, tqdm, m3u_files, downloaded_vids, json_count, failure_log, exit_status>>

\* ReturnPlaylist, but keeping the failed URLs of the last playlist only
ReturnPlaylistLastFailuresOnly ==
    /\ pc = "return"
    /\ total_success' = total_success + (Len(futs) - Len(failed_urls))
    /\ total_failures' = total_failures + Len(failed_urls)
    /\ total_skipped' = total_skipped + skipped_count
    /\ all_failed_urls' = failed_urls
    /\ jp' = jp + 1
    /\ pc' = IF jp + 1 = json_count THEN "summary" ELSE "next"
    /\ playlist_name' = None
    /\ playlist_track_files' = <<>>
    /\ skipped_count' = 0
    /\ failed_urls' = <<>>
    /\ download_errors' = <<>>
    /\ futs' = <<>>
    /\ progress' = NoProgress
    /\ hist' = [hist EXCEPT !.expNew = <<>>, !.expOld = <<>>, !.scenario = <<>>,
                             !.index0 = EmptyIndex, !.outcomes = <<>>, !.twin = <<>>,
                             !.answers = <<>>]
    /\ UNCHANGED <<args, text, tqdm, m3u_files, downloaded_vids, json_count, failure_log,
                   exit_status>>

\* lines 599, 649, 759 and main's 824-828: process_playlist returns
\* (success_count, len(failed_urls), skipped_count, failed_urls), main folds it
ReturnPlaylist ==
    /\ pc = "return"
    /\ total_success' = total_success + (Len(futs) - Len(failed_urls))
    /\ total_failures' = total_failures + Len(failed_urls)
    /\ total_skipped' = total_skipped + skipped_count
    /\ all_failed_urls' = all_failed_urls \o failed_urls
    /\ jp' = jp + 1
    /\ pc' = IF jp + 1 = json_count THEN "summary" ELSE "next"
    /\ playlist_name' = None
    /\ playlist_track_files' = <<>>
    /\ skipped_count' = 0
    /\ failed_urls' = <<>>
    /\ download_errors' = <<>>
    /\ futs' = <<>>
    /\ progress' = NoProgress
    /\ hist' = [hist EXCEPT !.expNew = <<>>, !.expOld = <<>>, !.scenario = <<>>,
                             !.index0 = EmptyIndex, !.outcomes = <<>>, !.twin = <<>>,
                             !.answers = <<>>]
    /\ UNCHANGED <<args, text, tqdm, m3u_files, downloaded_vids, json_count, failure_log, exit_status>>

\* MainSummary, but writing the report whether or not a URL failed
MainSummaryAlwaysWrites(io_ok) ==
    /\ pc = "summary"
    /\ failure_log' = IF io_ok THEN [written |-> TRUE, urls |-> all_failed_urls]
                      ELSE failure_log
    /\ hist' = IF io_ok THEN [hist EXCEPT !.logWrites = @ + 1]
               ELSE [hist EXCEPT !.logRaised = TRUE]
    /\ exit_status' = IF all_failed_urls # <<>> THEN 1 ELSE 0
    /\ pc' = "exit"
    /\ UNCHANGED <<args, text, tqdm, progress, m3u_files, downloaded_vids, json_count, jp, mainVars, playlistVars>>

\* lines 830-855: the final summary, the failure log (its write may raise) and the status
MainSummary(io_ok) ==
    /\ pc = "summary"
    /\ IF all_failed_urls # <<>>
       THEN /\ failure_log' = IF io_ok THEN [written |-> TRUE, urls |-> all_failed_urls]
                              ELSE failure_log
            /\ hist' = IF io_ok THEN [hist EXCEPT !.logWrites = @ + 1]
                       ELSE [hist EXCEPT !.logRaised = TRUE]
            /\ exit_status' = 1
       ELSE /\ exit_status' = 0
            /\ UNCHANGED <<failure_log, hist>>
    /\ pc' = "exit"
    /\ UNCHANGED <<args, text, tqdm, progress, m3u_files, downloaded_vids, json_count, jp, mainVars, playlistVars>>

(***************************************************************************)
(* Runs over several playlists.                                            *)
(***************************************************************************)
Next ==
    \/ MainRootMissing
    \/ \E library \in LibraryMenu : MainNoPlaylists(library)
    \/ \E library \in LibraryMenu : \E n \in 1..MaxPlaylists : MainBegin(library, n)
    \/ \E input \in RunPlaylists : StartPlaylist(input, MaxTasks)
    \/ WorkerStart
    \/ \E i \in 1..MaxTracks : \E s \in RunScripts : WorkerFinish(i, s)
    \/ \E i \in 1..MaxTracks : \E size \in RunSizes : \E elapsed \in RunClock :
          ConsumeOutcome(i, size, elapsed)
    \/ FinishPool
    \/ ReturnPlaylist
    \/ \E io_ok \in BOOLEAN : MainSummary(io_ok)

Spec == Init /\ [][Next]_vars

(***************************************************************************)
(* Runs over one playlist, of more kinds of track.                          *)
(***************************************************************************)
NextPlaylist ==
    \/ \E library \in LibraryMenu : MainBegin(library, 1)
    \/ \E input \in PlaylistsOver(PlaylistTracks, MaxTracks) : StartPlaylist(input, MaxTasks)
    \/ WorkerStart
    \/ \E i \in 1..MaxTracks : \E s \in PlaylistScripts : WorkerFinish(i, s)
    \/ \E i \in 1..MaxTracks : \E size \in RunSizes : \E elapsed \in RunClock :
          ConsumeOutcome(i, size, elapsed)
    \/ FinishPool
    \/ ReturnPlaylist
    \/ \E io_ok \in BOOLEAN : MainSummary(io_ok)

SpecPlaylist == Init /\ [][NextPlaylist]_vars

(***************************************************************************)
(* Runs over one playlist of one track: every shape of track, every flag    *)
(* and every answer of the tool.                                            *)
(***************************************************************************)
InitTask == InitWith(ArgsMenu)

NextTask ==
    \/ \E library \in LibraryMenu : MainBegin(library, 1)
    \/ \E input \in SingleTrackPlaylists : StartPlaylist(input, 1)
    \/ WorkerStart
    \/ \E s \in TaskScripts : WorkerFinish(1, s)
    \/ \E size \in RunSizes : \E elapsed \in RunClock : ConsumeOutcome(1, size, elapsed)
    \/ FinishPool
    \/ ReturnPlaylist
    \/ \E io_ok \in BOOLEAN : MainSummary(io_ok)

SpecTask == InitTask /\ [][NextTask]_vars

(***************************************************************************)
(* Runs over one playlist with pools of every width.                        *)
(***************************************************************************)
\* tracks with a URL: each gives a task unless the library holds it
PoolTracks == {TrackA, TrackB, TrackR}

\* a task done at once, one failed for good, one done by a replacement
PoolScripts ==
    { Script(OK, AllGeo(OK), ProbeFound, SearchFailed, OK),
      Script(DiagOther, AllGeo(OK), ProbeFound, SearchFailed, OK),
      Script(DiagUnavailable, AllGeo(OK), ProbeFound, SearchFound, OK) }

InitPool == InitWith(PoolArgs)

NextPool ==
    \/ \E library \in LibraryMenu : MainBegin(library, 1)
    \/ \E input \in PlaylistsOver(PoolTracks, MaxTracks) : StartPlaylist(input, MaxTracks)
    \/ WorkerStart
    \/ \E i \in 1..MaxTracks : \E s \in PoolScripts : WorkerFinish(i, s)
    \/ \E i \in 1..MaxTracks : \E size \in RunSizes : \E elapsed \in RunClock :
          ConsumeOutcome(i, size, elapsed)
    \/ FinishPool
    \/ ReturnPlaylist
    \/ \E io_ok \in BOOLEAN : MainSummary(io_ok)

SpecPool == InitPool /\ [][NextPool]_vars

(***************************************************************************)
(* Runs over one playlist of one track whose first invocation is answered   *)
(* with a region-blocked diagnostic.                                        *)
(***************************************************************************)
InitRegion == InitWith(RegionArgs)

NextRegion ==
    \/ MainBegin({}, 1)
    \/ StartPlaylist([valid |-> TRUE, tracks |-> <<TrackA>>], 1)
    \/ WorkerStart
    \/ \E s \in RegionScripts : WorkerFinish(1, s)
    \/ \E size \in RunSizes : \E elapsed \in RunClock : ConsumeOutcome(1, size, elapsed)
    \/ FinishPool
    \/ ReturnPlaylist
    \/ \E io_ok \in BOOLEAN : MainSummary(io_ok)

SpecRegion == InitRegion /\ [][NextRegion]_vars

(***************************************************************************)
(* Runs over one playlist of one track that is unavailable, with the        *)
(* replacement search on.                                                   *)
(***************************************************************************)
InitSearch == InitWith(SearchArgs)

NextSearch ==
    \/ MainBegin({}, 1)
    \/ \E t \in SearchTracks : StartPlaylist([valid |-> TRUE, tracks |-> <<t>>], 1)
    \/ WorkerStart
    \/ \E s \in SearchScripts : WorkerFinish(1, s)
    \/ \E size \in RunSizes : \E elapsed \in RunClock : ConsumeOutcome(1, size, elapsed)
    \/ FinishPool
    \/ ReturnPlaylist
    \/ \E io_ok \in BOOLEAN : MainSummary(io_ok)

SpecSearch == InitSearch /\ [][NextSearch]_vars

(***************************************************************************)
(* Runs over one playlist of five tracks, with and without tqdm, the       *)
(* files of every size and the completions at every time.                  *)
(***************************************************************************)
EtaTasks == 5

EtaPlaylist == [valid |-> TRUE, tracks |-> <<TrackA, TrackB, TrackR, TrackA, TrackB>>]

InitEta == InitEnv({Arguments(1, FALSE, FALSE, FALSE)}, BOOLEAN)

NextEta ==
    \/ MainBegin({}, 1)
    \/ StartPlaylist(EtaPlaylist, EtaTasks)
    \/ WorkerStart
    \/ \E i \in 1..EtaTasks : \E s \in PlaylistScripts : WorkerFinish(i, s)
    \/ \E i \in 1..EtaTasks : \E size \in EtaSizes : \E elapsed \in EtaClock :
          ConsumeOutcome(i, size, elapsed)
    \/ FinishPool
    \/ ReturnPlaylist
    \/ \E io_ok \in BOOLEAN : MainSummary(io_ok)

SpecEta == InitEta /\ [][NextEta]_vars

(***************************************************************************)
(* Runs over one playlist with --write-m3u on and off, over libraries      *)
(* whose file names differ in case.                                        *)
(***************************************************************************)
M3uLibraries ==
    { {},
      {"Old/song r [rrrrrrrrrrr].m4a"},
      {"Old/song r [rrrrrrrrrrr].m4a", "Old/Song A [aaaaaaaaaaa].m4a"} }

M3uArgs == {[Arguments(2, FALSE, FALSE, FALSE) EXCEPT !.write_m3u = w] : w \in BOOLEAN}

InitM3u == InitWith(M3uArgs)

NextM3u ==
    \/ \E library \in M3uLibraries : MainBegin(library, 1)
    \/ \E input \in PlaylistsOver({TrackA, TrackB, TrackR}, MaxTracks) :
          StartPlaylist(input, MaxTracks)
    \/ WorkerStart
    \/ \E i \in 1..MaxTracks : \E s \in PlaylistScripts : WorkerFinish(i, s)
    \/ \E i \in 1..MaxTracks : \E size \in RunSizes : \E elapsed \in RunClock :
          ConsumeOutcome(i, size, elapsed)
    \/ FinishPool
    \/ ReturnPlaylist
    \/ \E io_ok \in BOOLEAN : MainSummary(io_ok)

SpecM3u == InitM3u /\ [][NextM3u]_vars

(***************************************************************************)
(* Runs over several playlist files, some of them invalid: unreadable or   *)
(* malformed, or with a track list that holds an entry of the wrong type.  *)
(***************************************************************************)
LoadPlaylists ==
    PlaylistsOver({TrackA, TrackB}, 1)
        \union {[valid |-> TRUE, tracks |-> ts] : ts \in {<<NullTrack>>, <<TrackA, NullTrack>>}}

NextLoad ==
    \/ \E library \in LibraryMenu : MainBegin(library, MaxPlaylists)
    \/ \E input \in LoadPlaylists : StartPlaylist(input, MaxTasks)
    \/ WorkerStart
    \/ \E i \in 1..MaxTracks : \E s \in PlaylistScripts : WorkerFinish(i, s)
    \/ \E i \in 1..MaxTracks : \E size \in RunSizes : \E elapsed \in RunClock :
          ConsumeOutcome(i, size, elapsed)
    \/ FinishPool
    \/ ReturnPlaylist
    \/ \E io_ok \in BOOLEAN : MainSummary(io_ok)

SpecLoad == Init /\ [][NextLoad]_vars

(***************************************************************************)
(* Runs under fair scheduling.  The thread of main takes its next step     *)
(* whenever it has one; a free worker of the pool takes a queued task; and *)
(* every invocation of the tool returns, so a running task ends.           *)
(***************************************************************************)
LivePlaylists ==
    PlaylistsOver({TrackA}, 2)
        \union {[valid |-> TRUE, tracks |-> ts] : ts \in {<<NullTrack>>, <<TrackA, NullTrack>>}}

\* a task done at once, one whose replacement fails to download and a
\* region-blocked one all of whose retries fail
LiveScripts ==
    { Script(OK, AllGeo(OK), ProbeFound, SearchFailed, OK),
      Script(DiagUnavailable, AllGeo(OK), ProbeFound, SearchFound, DiagOther),
      Script(DiagRegionList, AllGeo(DiagOther), ProbeFound, SearchFailed, OK) }

LiveArgs == {Arguments(c, TRUE, FALSE, FALSE) : c \in {1, 2}}

InitLive == InitWith(LiveArgs)

\* the steps of the thread that runs main and process_playlist
MainThread ==
    \/ \E library \in LibraryMenu : MainBegin(library, MaxPlaylists)
    \/ \E input \in LivePlaylists : StartPlaylist(input, MaxTasks)
    \/ \E i \in 1..MaxTracks : \E size \in RunSizes : \E elapsed \in RunClock :
          ConsumeOutcome(i, size, elapsed)
    \/ FinishPool
    \/ ReturnPlaylist
    \/ \E io_ok \in BOOLEAN : MainSummary(io_ok)

\* the invocations of the i-th task have all returned
TaskReturns(i) == \E s \in LiveScripts : WorkerFinish(i, s)

NextLive ==
    \/ MainThread
    \/ WorkerStart
    \/ \E i \in 1..MaxTracks : TaskReturns(i)

Fairness ==
    /\ WF_vars(MainThread)
    /\ WF_vars(WorkerStart)
    /\ \A i \in 1..MaxTracks : WF_vars(TaskReturns(i))

SpecLive == InitLive /\ [][NextLive]_vars /\ Fairness

(***************************************************************************)
(* Properties.                                                             *)
(***************************************************************************)
Range(q) == {q[i] : i \in 1..Len(q)}

FutUrls == [i \in 1..Len(futs) |-> futs[i].url]

LastCall(f) == f.res.calls[Len(f.res.calls)]

\* C1: once the index maps an identifier to a path, no step of the run maps it
\* to a different path or drops it.
C1_IndexPathNeverChanges ==
    [][\A v \in DOMAIN downloaded_vids :
          v \in DOMAIN downloaded_vids' /\ downloaded_vids'[v] = downloaded_vids[v]]_vars

\* C2: no identifier has more than one task submitted for its tracks in a run,
\* and a finished run that started from an empty library has submitted N - K
\* tasks, N the resolvable tracks met and K those repeating an earlier
\* track's identifier.
C2_SubmittedOncePerIdentifier ==
    /\ \A v \in Ids : hist.sub[v] <= 1
    /\ (pc = "exit" /\ hist.seed = {}) => hist.tasks = hist.N - hist.K

\* C3: no two tasks of a run finish with success for tracks of the same identifier.
C3_OneSuccessPerTrack == \A v \in Ids : hist.succ[v] <= 1

\* C4: in a playlist being processed the tasks are the resolvable tracks not
\* in the index at construction, in order; the skipped count is the number of
\* the others, whose indexed paths open the file list; and a playlist of three
\* tracks of which just the second is indexed has tasks for the first and the
\* third only, one skipped, and three paths once both tasks have succeeded.
C4_PartitionSkippedAndNew ==
    pc \in {"pool", "return"} =>
        /\ FutUrls = hist.expNew
        /\ skipped_count = Len(hist.expOld)
        /\ Len(playlist_track_files) >= Len(hist.expOld)
        /\ SubSeq(playlist_track_files, 1, Len(hist.expOld)) = hist.expOld
        /\ hist.scenario # <<>> =>
              /\ FutUrls = hist.scenario
              /\ skipped_count = 1
              /\ (pc = "return" /\ failed_urls = <<>>) => Len(playlist_track_files) = 3

\* the three-track playlist, tracks one and three distinct, both downloaded
C4_Witness ==
    /\ pc = "return"
    /\ hist.scenario # <<>>
    /\ hist.scenario[1] # hist.scenario[2]
    /\ failed_urls = <<>>
    /\ Len(playlist_track_files) = 3

\* a task whose first invocation failed as unavailable and whose last
\* invocation is the download of a replacement, which succeeded
ReplacementSucceeded(f) ==
    /\ f.st = "done"
    /\ Len(f.res.calls) >= 2
    /\ f.res.calls[1].res = DiagUnavailable
    /\ LastCall(f).kind = "download"
    /\ LastCall(f).res = OK

\* C5: a task whose replacement download succeeded returns success with the
\* replacement's URL and the identifier in that URL; when the scheduler takes
\* that outcome it maps the replacement's identifier to the path in the index,
\* adds no entry for the track's own identifier, appends the path to the
\* playlist's files and leaves the failed list as it is.
C5_ReplacementRecorded ==
    /\ [](\A i \in 1..Len(futs) :
            ReplacementSucceeded(futs[i]) =>
                /\ futs[i].res.ok
                /\ futs[i].res.url = LastCall(futs[i]).url
                /\ futs[i].res.url # futs[i].url
                /\ futs[i].res.vid = text.vid[futs[i].res.url]
                /\ futs[i].res.vid # futs[i].track_vid
                /\ futs[i].res.final_path # None)
    /\ [][\A i \in 1..Len(futs) :
            (ReplacementSucceeded(futs[i]) /\ futs'[i].st = "consumed") =>
                /\ futs[i].res.vid \in DOMAIN downloaded_vids'
                /\ downloaded_vids'[futs[i].res.vid] = futs[i].res.final_path
                /\ DOMAIN downloaded_vids' = DOMAIN downloaded_vids \union {futs[i].res.vid}
                /\ playlist_track_files' = Append(playlist_track_files, futs[i].res.final_path)
                /\ failed_urls' = failed_urls]_vars

\* the first playlist's only task, for track A, was taken as a success and
\* the index holds the replacement R, not A
C5_Witness ==
    /\ pc = "pool"
    /\ jp = 0
    /\ Len(futs) = 1
    /\ futs[1].st = "consumed"
    /\ futs[1].track_vid = VidA
    /\ hist.seed = {}
    /\ DOMAIN downloaded_vids = {VidR}
    /\ failed_urls = <<>>
    /\ Len(playlist_track_files) = 1

\* C6: a task whose first invocation failed with the text DiagRegion makes a
\* second invocation with the hint "DE", and if that one succeeds the task
\* returns success.
C6_RegionRetryUsesHintDE ==
    \A i \in 1..Len(futs) :
        (futs[i].st = "done" /\ futs[i].res.calls[1].res = DiagRegion) =>
            /\ Len(futs[i].res.calls) >= 2
            /\ futs[i].res.calls[2].xff = "DE"
            /\ futs[i].res.calls[2].res = OK => futs[i].res.ok

C8_FailuresNeverAbort ==
    /\ pc = "return" => \A i \in 1..Len(futs) : futs[i].st = "consumed"
    /\ pc = "summary" \/ (pc = "exit" /\ json_count > 0) =>
          /\ jp = json_count
          /\ total_success + total_failures = hist.tasks
          /\ total_failures = Len(all_failed_urls)
          /\ hist.failedTasks \subseteq Range(all_failed_urls)

\* a task of the first playlist failed and a task of the second has been taken
C8_Witness ==
    /\ pc = "pool"
    /\ jp = 1
    /\ all_failed_urls # <<>>
    /\ \E i \in 1..Len(futs) : futs[i].st = "consumed"

\* C9: every URL in the playlist's failed list is the URL of one of its
\* tasks, and a task that ends without success returns its own URL, also
\* after a replacement was found and its download failed.
C9_FailedListHoldsOriginalUrls ==
    /\ Range(failed_urls) \subseteq Range(FutUrls)
    /\ \A i \in 1..Len(futs) :
          (futs[i].st = "done" /\ ~Succeeded(futs[i].res)) => futs[i].res.url = futs[i].url

\* the only task, for track A, was unavailable, and the download of its
\* replacement R failed
C9_Witness ==
    /\ Len(futs) = 1
    /\ futs[1].st = "done"
    /\ ~futs[1].res.ok
    /\ futs[1].url = CanonicalUrl(VidA)
    /\ LastCall(futs[1]).kind = "download"
    /\ LastCall(futs[1]).url = CanonicalUrl(VidR)
    /\ LastCall(futs[1]).res = DiagOther

C11_AtMostWidthRunning ==
    Cardinality(Running) <= (IF args.concurrency >= 1 THEN args.concurrency ELSE 1)

\* concurrency zero: one task executes while another waits for the worker
C11_Witness ==
    /\ pc = "pool"
    /\ args.concurrency = 0
    /\ Cardinality(Running) = 1
    /\ Queued # {}

\* C12: playlists are processed one after another: a task executes only while
\* its own playlist is in the pool, by then every task of the earlier
\* playlists has been taken and counted, and when the next playlist is looked
\* up in the index every task submitted so far has ended, its outcome has been
\* taken, a success is in the index and all are in the run's counters.
C12_PlaylistsOneAfterAnother ==
    /\ pc # "pool" => \A i \in 1..Len(futs) : futs[i].st = "consumed"
    /\ pc = "pool" =>
          /\ total_success + total_failures = hist.tasks - Len(futs)
          /\ hist.taken = hist.tasks - Len(futs)
                             + Cardinality({i \in 1..Len(futs) : futs[i].st = "consumed"})
    /\ pc = "next" =>
          /\ futs = <<>>
          /\ hist.taken = hist.tasks
          /\ total_success + total_failures = hist.tasks
          /\ hist.okVids \subseteq DOMAIN downloaded_vids

\* a task of the second playlist executes after a task of the first succeeded
C12_Witness ==
    /\ pc = "pool"
    /\ jp = 1
    /\ Running # {}
    /\ hist.tasks > Len(futs)
    /\ total_success = 1

\* C13: every write of the index made for a task is under the identifier of
\* that task's own track, and no two tasks of a run write the same key.
C13_WritesOwnKeyOnce ==
    \A w \in hist.writes :
        /\ w.key = w.track_vid
        /\ \A x \in hist.writes : x.key = w.key => x.task = w.task

\* the index after the outcomes outs have been taken in the order of submission
RECURSIVE InSubmissionOrder(_, _)
InSubmissionOrder(index, outs) ==
    IF outs = <<>> THEN index
    ELSE InSubmissionOrder(IF Head(outs).ok
                           THEN MapPut(index, Head(outs).vid, Head(outs).final_path)
                           ELSE index,
                           Tail(outs))

\* C14: when a playlist returns, its downloaded, failed and skipped counts and
\* the index are what the playlist and the outcome of each task give when the
\* outcomes are taken in the order of submission, whatever the order in which
\* the tasks ended and were taken.
C14_SameForEveryCompletionOrder ==
    (pc = "return" /\ futs # <<>>) =>
        LET ok == {i \in 1..Len(futs) : hist.outcomes[i].ok}
        IN  /\ downloaded_vids = InSubmissionOrder(hist.index0, hist.outcomes)
            /\ Len(futs) - Len(failed_urls) = Cardinality(ok)
            /\ Len(failed_urls) = Len(futs) - Cardinality(ok)
            /\ Len(playlist_track_files) = Len(hist.expOld) + Cardinality(ok)
            /\ skipped_count = Len(hist.expOld)

\* three tasks, the second failed and was taken first, the third succeeded
\* and was taken before the first did
C14_Witness ==
    /\ pc = "return"
    /\ Len(futs) = 3
    /\ hist.expOld = <<>>
    /\ hist.outcomes[1].ok /\ ~hist.outcomes[2].ok /\ hist.outcomes[3].ok
    /\ hist.outcomes[1].vid # hist.outcomes[3].vid
    /\ playlist_track_files = <<hist.outcomes[3].final_path, hist.outcomes[1].final_path>>
    /\ failed_urls = <<futs[2].url>>

\* C15: a task run with --dry-run makes, on the same answers of the tool, the
\* invocations it makes without it, in the same order, but for the
\* skip-download instruction of its downloads.
C15_DryRunSameInvocations ==
    \A i \in 1..Len(futs) :
        (futs[i].st = "done" /\ args.dry_run) =>
            /\ Len(futs[i].res.calls) = Len(hist.twin[i])
            /\ \A k \in 1..Len(hist.twin[i]) :
                  [futs[i].res.calls[k] EXCEPT !.dry = hist.twin[i][k].dry] = hist.twin[i][k]

\* C16: a task whose first invocation fails with an age-restricted, a
\* premium-only or an unclassified diagnostic makes that one invocation only
\* and returns a failure with its own URL and that diagnostic text; taking the
\* outcome appends the URL to the failed list and the text to the errors.
C16_OtherFailuresAreTerminal ==
    /\ [](\A i \in 1..Len(futs) :
            (futs[i].st = "done" /\ futs[i].res.calls[1].res \in {DiagAge, DiagPremium, DiagOther}) =>
                /\ Len(futs[i].res.calls) = 1
                /\ ~futs[i].res.ok
                /\ futs[i].res.final_path = None
                /\ futs[i].res.url = futs[i].url
                /\ futs[i].res.error_message = "[yt-dlp stderr] " \o futs[i].res.calls[1].res)
    /\ [][\A i \in 1..Len(futs) :
            (/\ futs[i].st = "done"
             /\ futs[i].res.calls[1].res \in {DiagAge, DiagPremium, DiagOther}
             /\ futs'[i].st = "consumed") =>
                /\ failed_urls' = Append(failed_urls, futs[i].url)
                /\ download_errors' = Append(download_errors, futs[i].res.error_message)
                /\ downloaded_vids' = downloaded_vids]_vars

\* with the replacement search on, a premium-only failure was taken as a failure
C16_Witness ==
    /\ args.retry_search_if_unavailable
    /\ ~args.dry_run
    /\ Len(futs) = 1
    /\ futs[1].st = "consumed"
    /\ failed_urls = <<futs[1].url>>
    /\ download_errors = <<"[yt-dlp stderr] " \o DiagPremium>>

\* C17: after a region-blocked first invocation a task makes at most 5 retry
\* invocations, each a download of the same URL with a hint; none but the last
\* of them succeeded (exit status 0 and a path), so each was made after the
\* one before it had failed; and a task whose last retry succeeded returns
\* success.
C17_LadderStopsAtSuccess ==
    \A i \in 1..Len(futs) :
        (futs[i].st = "done" /\ futs[i].res.calls[1].res \in RegionDiags) =>
            LET calls == futs[i].res.calls
                n == Len(calls)
            IN  /\ n - 1 <= 5
                /\ \A k \in 2..n : /\ calls[k].kind = "download"
                                    /\ calls[k].xff # None
                                    /\ calls[k].url = calls[1].url
                /\ \A k \in 2..(n - 1) : calls[k].res # OK
                /\ (n >= 2 /\ calls[n].res = OK) =>
                      futs[i].res.ok /\ futs[i].res.final_path # None

\* eight countries listed: the first retry failed, the second succeeded and
\* no third was made
C17_Witness ==
    /\ Len(futs) = 1
    /\ futs[1].st = "done"
    /\ futs[1].res.calls[1].res = DiagRegionList
    /\ Len(futs[1].res.calls) = 3
    /\ futs[1].res.calls[2].res = DiagOther
    /\ futs[1].res.calls[3].res = OK
    /\ futs[1].res.ok

\* the hints of the retries a task has made, in order
HintsUsed(f) == [k \in 1..(Len(f.res.calls) - 1) |-> f.res.calls[k + 1].xff]

\* C18: in the region ladder of one task no hint is used for two retries.
C18_NoHintTwice ==
    \A i \in 1..Len(futs) :
        (futs[i].st = "done" /\ futs[i].res.calls[1].res \in RegionDiags) =>
            \A j, k \in 1..Len(HintsUsed(futs[i])) :
                j # k => HintsUsed(futs[i])[j] # HintsUsed(futs[i])[k]

\* C19: of the names Germany, United States, uk, X, Canada, Poland, Spain,
\* Italy the hints are GE (first two letters), US (initials), UK (as it is),
\* none for X, then CA and PO, which makes five, X not counted; the name X
\* alone gives no hint and no retry; and the retries of a task use the hints
\* of its diagnostic in order, from the first on.
C19_HintsOfCountryNames ==
    /\ text.hints[DiagRegionList] = <<"GE", "US", "UK", "CA", "PO">>
    /\ text.hints[DiagRegionLetter] = <<>>
    /\ \A i \in 1..Len(futs) :
          (futs[i].st = "done" /\ futs[i].res.calls[1].res \in RegionDiags) =>
              LET used == HintsUsed(futs[i])
                  all == text.hints[futs[i].res.calls[1].res]
              IN  /\ Len(used) <= Len(all)
                  /\ used = SubSeq(all, 1, Len(used))
                  /\ (Len(used) < Len(all)) => LastCall(futs[i]).res = OK
                  /\ futs[i].res.calls[1].res = DiagRegionLetter => Len(futs[i].res.calls) = 1

\* all five retries for the list of eight names were made and failed
C19_Witness ==
    /\ Len(futs) = 1
    /\ futs[1].st = "done"
    /\ futs[1].res.calls[1].res = DiagRegionList
    /\ HintsUsed(futs[1]) = <<"GE", "US", "UK", "CA", "PO">>
    /\ ~futs[1].res.ok

\* the positions of a task's invocations of one kind after the first; a
\* download among them without a hint is the download of a replacement
CallsOfKind(f, kind) ==
    {k \in 2..Len(f.res.calls) : f.res.calls[k].kind = kind /\ f.res.calls[k].xff = None}

\* C20: without the retry-search option a task makes no probe, no search and
\* no replacement download; with it a task makes at most one replacement
\* download, and makes it only after a first invocation that failed as
\* unavailable and a search that returned, for a URL other than the task's.
C20_ReplacementOptInOnce ==
    \A i \in 1..Len(futs) :
        futs[i].st = "done" =>
            LET f == futs[i]
                repl == CallsOfKind(f, "download")
            IN  /\ ~args.retry_search_if_unavailable =>
                      /\ \A k \in 1..Len(f.res.calls) : f.res.calls[k].kind = "download"
                      /\ repl = {}
                /\ Cardinality(repl) <= 1
                /\ Cardinality(CallsOfKind(f, "probe")) <= 1
                /\ Cardinality(CallsOfKind(f, "search")) <= 1
                /\ \A k \in repl :
                      /\ args.retry_search_if_unavailable
                      /\ f.res.calls[1].res = DiagUnavailable
                      /\ k = Len(f.res.calls)
                      /\ f.res.calls[k - 1].kind = "search"
                      /\ f.res.calls[k - 1].res = OK
                      /\ f.res.calls[k].url # f.url
                      /\ f.res.calls[k].url # f.res.calls[1].url

\* the task made a probe, a search and the download of a replacement, which failed
C20_Witness ==
    /\ args.retry_search_if_unavailable
    /\ Len(futs) = 1
    /\ futs[1].st = "done"
    /\ Len(futs[1].res.calls) = 4
    /\ futs[1].res.calls[2].kind = "probe"
    /\ futs[1].res.calls[3].kind = "search"
    /\ CallsOfKind(futs[1], "download") = {4}
    /\ ~futs[1].res.ok

\* C21: the category of a diagnostic is the first of age_restricted,
\* premium_only, region_blocked, unavailable whose phrase is in the text, in
\* either case, and other when none is: a text with the unavailable and a
\* region phrase is region_blocked, one with the age phrase and all the others
\* is age_restricted, one with a premium and a region phrase is premium_only;
\* and a task acts on that category: a region retry for the first, nothing
\* after the first invocation for the other two.
C21_FirstMatchingCategory ==
    /\ text.class[DiagUnavailableRegion] = "region_blocked"
    /\ text.class[DiagAllPhrases] = "age_restricted"
    /\ text.class[DiagPremiumRegion] = "premium_only"
    /\ text.class[DiagAge] = "age_restricted"
    /\ text.class[DiagPremium] = "premium_only"
    /\ text.class[DiagRegion] = "region_blocked"
    /\ text.class[DiagUnavailable] = "unavailable"
    /\ text.class[DiagOther] = "other"
    /\ \A i \in 1..Len(futs) :
          futs[i].st = "done" =>
              LET calls == futs[i].res.calls
              IN  /\ calls[1].res = DiagUnavailableRegion =>
                        /\ Len(calls) = 2
                        /\ calls[2].kind = "download"
                        /\ calls[2].xff # None
                  /\ calls[1].res \in {DiagAllPhrases, DiagPremiumRegion} => Len(calls) = 1

\* with the replacement search on, a task whose diagnostic has the unavailable
\* and a region phrase made a region retry, which succeeded, and no probe
C21_Witness ==
    /\ args.retry_search_if_unavailable
    /\ ~args.dry_run
    /\ Len(futs) = 1
    /\ futs[1].st = "done"
    /\ futs[1].res.calls[1].res = DiagUnavailableRegion
    /\ Len(futs[1].res.calls) = 2
    /\ futs[1].res.calls[2].xff = "YC"
    /\ futs[1].res.ok

\* C22: the first invocation of a task is for a URL that holds the identifier
\* under which the scheduler looked the track up, and resolving the resolved
\* (url, videoId) pair of a track gives that pair again.
C22_UrlHoldsLookupIdentifier ==
    /\ \A i \in 1..Len(futs) :
          futs[i].st = "done" => VidOf(futs[i].res.calls[1].url) = futs[i].track_vid
    /\ \A t \in TrackMenu :
          Resolvable(t) =>
              resolve_track(Track(t.title, resolve_track(t).url, resolve_track(t).vid))
                  = resolve_track(t)

\* C23: whatever the search returns, the replacement a task downloads is
\* never the video of the task's own URL.
C23_ReplacementIsAnotherVideo ==
    \A i \in 1..Len(futs) :
        futs[i].st = "done" =>
            \A k \in CallsOfKind(futs[i], "download") :
                VidOf(futs[i].res.calls[k].url) # VidOf(futs[i].url)

\* the search returned the failed video B first and then another, which was
\* downloaded as the replacement
C23_Witness ==
    /\ Len(futs) = 1
    /\ futs[1].st = "done"
    /\ futs[1].track_vid = VidB
    /\ Len(hist.answers[1].search.cands) = 2
    /\ hist.answers[1].search.cands[1].id = VidB
    /\ CallsOfKind(futs[1], "download") = {4}
    /\ VidOf(futs[1].res.calls[4].url) = VidR
    /\ futs[1].res.ok

\* the expected duration a task's probe gave, NoDuration when it gave none
ProbedDuration(i) ==
    IF hist.answers[i].probe.rc = 0 THEN hist.answers[i].probe.dur ELSE NoDuration

\* the search of a task returned one result, which passes every filter but,
\* it may be, that of the duration
OneResultOfAnyDuration(i) ==
    /\ futs[i].st = "done"
    /\ CallsOfKind(futs[i], "search") # {}
    /\ hist.answers[i].search.rc = 0
    /\ Len(hist.answers[i].search.cands) = 1
    /\ hist.answers[i].search.cands[1].id = VidR

Survivors(i) ==
    SelectSeq(ParsedCandidates(hist.answers[i].search.cands, VidOf(futs[i].url)),
              LAMBDA c : PassesFilters(c, text.latin[futs[i].title], ProbedDuration(i)))

\* C25: the replacement of a titled task is a result that passed the filters
\* and whose token-set similarity to the normalized title of the track is the
\* greatest among those that passed, and there is none exactly when no result
\* passed.
C25_BestByNormalizedTitle ==
    \A i \in 1..Len(futs) :
        (/\ futs[i].st = "done" /\ futs[i].title # None
         /\ CallsOfKind(futs[i], "search") # {} /\ hist.answers[i].search.rc = 0) =>
            LET surv == Survivors(i)
                sim(c) == text.sim[text.norm[futs[i].title]][c.title]
                repl == CallsOfKind(futs[i], "download")
            IN  /\ repl = {} <=> surv = <<>>
                /\ \A k \in repl :
                      \E n \in 1..Len(surv) :
                          /\ surv[n].id = VidOf(futs[i].res.calls[k].url)
                          /\ \A m \in 1..Len(surv) : ~FracLess(sim(surv[n]), sim(surv[m]))

\* the futures of the playlist the coordinator has taken
Completed == {i \in 1..Len(futs) : futs[i].st = "consumed"}

\* the postfix that shows the estimate e, a fraction of seconds
Shown(e) == "ETA " \o fmt_eta(e) \o " | failed: " \o Decimal(Len(failed_urls))

\* the time-based estimate: the mean time of a completion times the tasks left
TimeEstimate ==
    <<progress.elapsed * (Len(futs) - Cardinality(Completed)), Cardinality(Completed)>>

\* the throughput estimate: the bytes left, at the mean size of a success,
\* over the mean speed; the bytes cancel
ThroughputEstimate ==
    <<progress.elapsed * (Len(futs) - Cardinality(Completed)),
      Cardinality(Completed) - Len(failed_urls)>>

ThroughputKnown ==
    /\ Cardinality(Completed) - Len(failed_urls) > 0
    /\ progress.downloaded_bytes > 0
    /\ progress.elapsed > 0

\* C26: with the progress bar on, the postfix shows the placeholder before any
\* completion; the throughput estimate as it is after one completion that is
\* a success with bytes and time; the throughput estimate held between 0 and
\* three times the time-based estimate after two or more completions; and the
\* time-based estimate whenever there is no throughput estimate.
C26_EtaBlending ==
    (tqdm /\ pc = "pool") =>
        LET n == Cardinality(Completed)
            q == ThroughputEstimate
            t3 == <<3 * TimeEstimate[1], TimeEstimate[2]>>
        IN  /\ n = 0 => progress.postfix = "ETA --:-- | failed: 0"
            /\ (n = 1 /\ ThroughputKnown) => progress.postfix = Shown(q)
            /\ (n >= 2 /\ ThroughputKnown) =>
                   progress.postfix = Shown(IF FracLess(t3, q) THEN t3 ELSE q)
            /\ (n >= 1 /\ ~ThroughputKnown) => progress.postfix = Shown(TimeEstimate)

\* one success and three failures are taken after 12 s with one task left: the
\* throughput estimate is 12 s, three times the time-based one is 9 s
C26_Witness ==
    /\ tqdm /\ pc = "pool"
    /\ Cardinality(Completed) = 4
    /\ Len(failed_urls) = 3
    /\ progress.downloaded_bytes = 4
    /\ progress.elapsed = 12
    /\ progress.postfix = "ETA 00:09 | failed: 3"

\* the number of times x occurs in the list q
CountIn(q, x) == Cardinality({k \in 1..Len(q) : q[k] = x})

Probed(i) == futs[i].st = "done" /\ CallsOfKind(futs[i], "probe") # {}

\* the probe failed or printed no int duration
ProbeGaveNothing(i) ==
    hist.answers[i].probe.rc # 0 \/ hist.answers[i].probe.dur = NoDuration

\* the results of a task's search that pass the filters when the expected
\* duration is e
SurvivorsFor(i, e) ==
    LET latin == IF futs[i].title = None THEN FALSE ELSE text.latin[futs[i].title]
    IN  SelectSeq(ParsedCandidates(hist.answers[i].search.cands, VidOf(futs[i].url)),
                  LAMBDA c : PassesFilters(c, latin, e))

\* the task ended at its k-th invocation, reported as a failure with the
\* diagnostic of the first invocation and the URL of the track
EndsAsFirstFailure(i, k) ==
    /\ Len(futs[i].res.calls) = k
    /\ ~futs[i].res.ok
    /\ futs[i].res.url = futs[i].url
    /\ futs[i].res.error_message = "[yt-dlp stderr] " \o hist.answers[i].first

\* the search was issued; it failed or no result of it passed the filters
SearchGaveNothing(i) ==
    /\ CallsOfKind(futs[i], "search") # {}
    /\ \/ hist.answers[i].search.rc # 0
       \/ SurvivorsFor(i, ExpectedDuration(hist.answers[i].probe)) = <<>>

C29_InvalidPlaylistSkipped ==
    [][ /\ (pc = "next" /\ hist'.invalid > hist.invalid) =>
              /\ pc' = "return"
              /\ playlist_name' = None
              /\ futs' = <<>>
              /\ downloaded_vids' = downloaded_vids
              /\ skipped_count' = 0 /\ failed_urls' = <<>>
        /\ (pc = "return" /\ playlist_name = None) =>
              /\ total_success' = total_success
              /\ total_failures' = total_failures
              /\ total_skipped' = total_skipped
              /\ all_failed_urls' = all_failed_urls
              /\ downloaded_vids' = downloaded_vids
              /\ jp' = jp + 1
              /\ pc' = IF jp + 1 < json_count THEN "next" ELSE "summary" ]_vars

\* C30: once every playlist is processed the totals are the sums, over the
\* playlists, of the tracks downloaded, failed and skipped, and at every
\* moment the total of failures is the length of the list of failed URLs.
C30_TotalsAreSums ==
    /\ total_failures = Len(all_failed_urls)
    /\ pc \in {"next", "summary"} =>
           /\ total_success = hist.sums.ok
           /\ total_failures = hist.sums.failed
           /\ total_skipped = hist.sums.skipped

\* two playlists are processed, a track failed in each, one was skipped
C30_Witness ==
    /\ pc = "summary"
    /\ jp = 2
    /\ Len(all_failed_urls) = 2
    /\ total_failures = 2
    /\ total_skipped = 1

\* the tasks of the playlist that ended as successes, as the workers saw them
EndedOk == {i \in 1..Len(futs) : hist.outcomes[i].ok}

\* C31: when a playlist has been processed, the count of downloaded tracks it
\* returns is that of its tasks that succeeded and the count of failed ones
\* that of the others, so the two add up to the tasks submitted; with the
\* skipped tracks they add up to the tracks that resolve to a (url, videoId)
\* pair, a track that resolves to none being in none of the three counts.
C31_CountersConserved ==
    (pc = "return" /\ playlist_name # None) =>
        LET downloaded == Len(futs) - Len(failed_urls)
            failed == Len(failed_urls)
        IN  /\ downloaded = Cardinality(EndedOk)
            /\ failed = Len(futs) - Cardinality(EndedOk)
            /\ downloaded + failed = Len(hist.expNew)
            /\ skipped_count = Len(hist.expOld)
            /\ downloaded + failed + skipped_count = Len(hist.expNew) + Len(hist.expOld)

\* a playlist with a track that resolves to no pair, a track already held
\* and a track whose download failed
C31_Witness ==
    /\ pc = "return" /\ playlist_name # None
    /\ hist.unres = 1
    /\ skipped_count = 1
    /\ Len(futs) = 1
    /\ Len(failed_urls) = 1

\* C32: once the library is scanned, the index changes only in a step in
\* which the coordinator takes one completed outcome, and then by one key; a
\* step of a worker, which starts or ends a task, leaves the index as it was,
\* and what a task ends with is download_track of its url, folder, arguments,
\* title and the tool's answers, the index not being among them.
C32_SingleWriter ==
    [][ pc # "start" =>
          /\ downloaded_vids' # downloaded_vids =>
                /\ pc = "pool" /\ pc' = "pool"
                /\ Len(futs') = Len(futs)
                /\ \E i \in 1..Len(futs) :
                      /\ futs[i].st = "done" /\ futs'[i].st = "consumed"
                      /\ \A j \in 1..Len(futs) : j # i => futs'[j] = futs[j]
                /\ \E v \in Ids :
                      /\ DOMAIN downloaded_vids' = DOMAIN downloaded_vids \union {v}
                      /\ \A k \in DOMAIN downloaded_vids \ {v} :
                            downloaded_vids'[k] = downloaded_vids[k]
          /\ \A i \in 1..Len(futs) :
                (futs[i].st \in {"queued", "running"} /\ Len(futs') = Len(futs)
                     /\ futs'[i].st # futs[i].st) =>
                    /\ downloaded_vids' = downloaded_vids
                    /\ futs'[i].st = "done" =>
                          futs'[i].res = download_track(futs[i].url, playlist_name, args,
                                                        futs[i].title, hist'.answers[i]) ]_vars

\* a pool of two or more workers: the coordinator has inserted the first
\* success into an index that was empty while another task is running
C32_Witness ==
    /\ pc = "pool"
    /\ args.concurrency >= 2
    /\ hist.seed = {}
    /\ hist.taken = 1
    /\ DOMAIN downloaded_vids # {}
    /\ Running # {}

\* the step takes the outcome of the playlist's i-th task
Takes(i) ==
    /\ pc = "pool" /\ Len(futs') = Len(futs)
    /\ futs[i].st = "done" /\ futs'[i].st = "consumed"

\* C33: an outcome is taken for a download only if it is reported successful
\* and has an identifier and a final path: it is then inserted into the index
\* and listed for the playlist; any other outcome, one reported successful
\* without a path or without an identifier too, has its URL added to the
\* failed list and leaves the index as it was.  No entry of the index is
\* without a path.
C33_DownloadedNeedsIdAndPath ==
    [][ /\ \A i \in 1..Len(futs) :
              Takes(i) =>
                  LET res == futs[i].res
                  IN  IF res.ok /\ res.vid # None /\ res.final_path # None
                      THEN /\ failed_urls' = failed_urls
                           /\ res.vid \in DOMAIN downloaded_vids'
                           /\ downloaded_vids'[res.vid] = res.final_path
                           /\ playlist_track_files' = Append(playlist_track_files, res.final_path)
                      ELSE /\ failed_urls' = Append(failed_urls, res.url)
                           /\ downloaded_vids' = downloaded_vids
                           /\ playlist_track_files' = playlist_track_files
        /\ \A v \in DOMAIN downloaded_vids' : v # None /\ downloaded_vids'[v] # None ]_vars

\* a download reported successful with a path but for a URL that holds no
\* identifier has been taken: it is in the failed list, the index is empty
C33_Witness ==
    /\ pc = "return"
    /\ \E o \in hist.uncounted : o.vid = None /\ o.final_path # None /\ failed_urls = <<o.url>>
    /\ downloaded_vids = EmptyIndex

\* an outcome reported successful without a path has been taken: it is in
\* the failed list, the index is empty
C33_WitnessNoPath ==
    /\ pc = "return"
    /\ \E o \in hist.uncounted : o.final_path = None /\ failed_urls = <<o.url>>
    /\ downloaded_vids = EmptyIndex

\* the positions of a task's invocations after the first: the region retries
\* carry a hint, the probe, the search and the replacement download none
Hinted(f) == {k \in 2..Len(f.res.calls) : f.res.calls[k].xff # None}
Unhinted(f) == {k \in 2..Len(f.res.calls) : f.res.calls[k].xff = None}
Downloads(f) == {k \in 1..Len(f.res.calls) : f.res.calls[k].kind = "download"}

\* the first invocation of the task failed with a diagnostic of the category
FirstFailureIs(f, category) ==
    /\ f.res.calls[1].res \in DiagMenu
    /\ text.class[f.res.calls[1].res] = category

\* C34: no task makes both a region retry and a probe, a search or a
\* replacement download; a task whose first failure is region-blocked makes
\* none of the latter, whatever its retries answer; a task with region
\* retries makes at most 1 + 5 downloads, any other task at most 2: its own
\* and, after a probe or a search, that of a replacement.
C34_LadderExcludesFallback ==
    \A i \in 1..Len(futs) :
        futs[i].st = "done" =>
            LET f == futs[i]
            IN  /\ Hinted(f) = {} \/ Unhinted(f) = {}
                /\ FirstFailureIs(f, FAIL_REGION) => Unhinted(f) = {}
                /\ Unhinted(f) # {} => FirstFailureIs(f, FAIL_UNAVAILABLE)
                /\ Cardinality(Downloads(f)) <= 1 + MaxHints
                /\ Hinted(f) = {} => Cardinality(Downloads(f)) <= 2
                /\ Cardinality(Downloads(f)) = 2 /\ Hinted(f) = {} => Unhinted(f) # {}

\* with the replacement search on, a region-blocked task made its five
\* retries, each answered "Video unavailable", and nothing more
C34_Witness ==
    /\ args.retry_search_if_unavailable
    /\ ~args.dry_run
    /\ Len(futs) = 1
    /\ futs[1].st = "done"
    /\ FirstFailureIs(futs[1], FAIL_REGION)
    /\ Len(futs[1].res.calls) = 1 + MaxHints
    /\ \A k \in 2..(1 + MaxHints) : futs[1].res.calls[k].res = DiagUnavailable
    /\ ~futs[1].res.ok

\* region-blocked by the first matching category, the diagnostic says "Video
\* unavailable" too: one retry, which failed, and no search
C34_WitnessMixed ==
    /\ args.retry_search_if_unavailable
    /\ ~args.dry_run
    /\ Len(futs) = 1
    /\ futs[1].st = "done"
    /\ futs[1].res.calls[1].res = DiagUnavailableRegion
    /\ Len(futs[1].res.calls) = 2
    /\ Hinted(futs[1]) = {2}
    /\ ~futs[1].res.ok

\* C35: a step that takes a failed outcome appends the task's URL to the
\* failed list, adds one to the failed count and appends the error message,
\* when there is one, to the collected messages; the index, the playlist's
\* file list, the success count, the bytes downloaded, the skipped count and
\* every variable of main are as before.  (The text shown on the progress
\* bar is display, not counted here.)
C35_FailureFrame ==
    [][ \A i \in 1..Len(futs) :
            (Takes(i) /\ ~Succeeded(futs[i].res)) =>
                /\ downloaded_vids' = downloaded_vids
                /\ playlist_track_files' = playlist_track_files
                /\ failed_urls' = Append(failed_urls, futs[i].res.url)
                /\ progress'.failed_count = progress.failed_count + 1
                /\ download_errors' = IF futs[i].res.error_message # None
                                      THEN Append(download_errors, futs[i].res.error_message)
                                      ELSE download_errors
                /\ progress'.success_count_so_far = progress.success_count_so_far
                /\ progress'.downloaded_bytes = progress.downloaded_bytes
                /\ UNCHANGED <<skipped_count, playlist_name, m3u_files, failure_log, exit_status,
                               json_count, jp, mainVars, args>> ]_vars

\* the first outcome taken in a playlist was a failure with a message: the
\* index and the file list hold what the scan and the held tracks put there
C35_Witness ==
    /\ pc = "pool"
    /\ progress.failed_count = 1
    /\ progress.success_count_so_far = 0
    /\ Len(failed_urls) = 1
    /\ Len(download_errors) = 1
    /\ DOMAIN downloaded_vids # {}
    /\ playlist_track_files # <<>>

\* the i-th task of the playlist in hand is in the state st
TaskIs(i, st) == i <= Len(futs) /\ futs[i].st = st

\* every finished task made at most 1 + 5 invocations, or at most 4: its own,
\* a probe, a search and the download of a replacement
InvocationsBounded ==
    \A i \in 1..Len(futs) :
        futs[i].st = "done" =>
            /\ Len(futs[i].res.calls) <= 1 + MaxHints
            /\ Hinted(futs[i]) = {} => Len(futs[i].res.calls) <= 4

\* the summary of lines 830-836 is next, every playlist file being processed
AtSummary == pc = "summary" /\ jp = json_count

\* the program ended in process_playlist, on an exception nothing catches
Crashed == pc = "exit" /\ jp < json_count

\* C36: under fair scheduling, every invocation returning, every submitted
\* task ends, after a bounded number of invocations; every playlist file is
\* processed; and the run reaches its summary and then its exit status.
C36_RunReachesSummary ==
    /\ []InvocationsBounded
    /\ \A i \in 1..MaxTracks : TaskIs(i, "queued") ~> TaskIs(i, "done")
    /\ (pc = "next") ~> AtSummary
    /\ <>(pc = "exit" /\ exit_status # NotExited)

\* what does hold of every fair run: tasks end, and the run ends, at its
\* summary with every playlist file processed or on the uncaught exception
C36_RunEnds ==
    /\ []InvocationsBounded
    /\ \A i \in 1..MaxTracks : TaskIs(i, "queued") ~> TaskIs(i, "done")
    /\ (pc = "next") ~> (AtSummary \/ Crashed)
    /\ AtSummary ~> (pc = "exit" /\ exit_status \in {0, 1})
    /\ <>(pc = "exit")
====
